---- MODULE Spec2Model ----
(***************************************************************************)
(* Verification model of sm-proc (brettmilford/nix-scripts, c/sm-proc):    *)
(* the AI-assisted extractor (src/ai/ai_service.c), the CBA text parser    *)
(* and its AI/text dispatch (src/parsers/cba_parser.c).                    *)
(*                                                                         *)
(* C strings are sequences of one-character strings.  A pointer into a     *)
(* string s is a 1-based index p; p = Len(s) + 1 is the terminating NUL.   *)
(* Monetary doubles are integers in hundredths (cents): 5000.00 is 500000. *)
(***************************************************************************)
EXTENDS Integers, Sequences, FiniteSets, TLC

VARIABLES
    \* --- parse_cba_statement_with_id / ai_service_parse_pdf (Spec) ---
    pc,          \* position in parse_cba_statement_with_id and its callees
    cfg,         \* g_config as seen by the CBA parser, plus the provider env
    content,     \* document text handed to the parser
    attempt,     \* loop variable of the retry loop
    result,      \* `result' of ai_service_parse_pdf (last provider call)
    response,    \* `response' of ai_service_parse_pdf (NoBody when NULL)
    callLog,     \* one entry per provider call made, in order
    requests,    \* HTTP requests actually performed (curl_easy_perform)
    sleeps,      \* the usleep delays performed, in seconds, in order
    aiResult,    \* what ai_service_parse_pdf / parse_cba_with_ai returned
    outcome,     \* what parse_cba_statement_with_id returned
    source,      \* which strategy produced `outcome'
    temp_file,   \* the temporary PDF of download_pdf_from_paperless:
                 \* "none", "present" or "deleted"
    \* --- validate_cba_json_response / parse_cba_json_to_result (SpecJson) ---
    jpc,         \* "input", "validated" or "parsed"
    jInput,      \* the response body under test
    jValid,      \* return value of validate_cba_json_response
    jResult,     \* return value of parse_cba_json_to_result
    \* --- parse_cba_statement (SpecCba) ---
    tpc,         \* "input", "parsed" or "parsed_anz"
    tInput,      \* the statement text under test
    tResult,     \* return value of the function applied
    \* --- categorise_transaction / categorise_all_transactions (SpecCat) ---
    kpc,         \* number of categoriser calls made so far
    kConfig,     \* the Config: default_category and rules
    kTx,         \* the Transaction array being categorised
    kLog,        \* per categorise_transaction call of the last operation:
                 \* the index, the transaction before, and the rules matched against
    \* --- main (SpecRun) ---
    runpc,       \* "query", "loop", "summary", "tagging", "cleanup", "exited" or "crashed"
    reprocess,   \* the --reprocess flag
    store,       \* the documents Paperless holds, in order of creation
    runCfg,      \* the CBA configuration set_cba_parser_config received
    documents,   \* the array query_documents returned
    doc_i,       \* the loop variable i of the document loop
    parse_result,              \* the last document's ParseResult
    processed_documents,
    skipped_documents,
    total_transaction_count,
    all_transactions,          \* the aggregate; NULL before the first and after a failed realloc
    all_metadata,
    runLog,      \* what the run did, in order
    \* --- make_api_request (SpecApi) ---
    apc,         \* "start", "loop", "returned" (a response) or "returned_null"
    api_max_retries,           \* the max_retries argument
    retry,       \* the loop variable
    api_response,              \* the struct APIResponse: memory[0..size) and freed
    api_body,    \* the bytes the last attempt received, in order
    api_sleeps   \* the sleep delays performed, in seconds, in order

aiVars   == <<pc, cfg, content, attempt, result, response, callLog, requests,
              sleeps, aiResult, outcome, source, temp_file>>
jsonVars == <<jpc, jInput, jValid, jResult>>
cbaVars  == <<tpc, tInput, tResult>>
catVars  == <<kpc, kConfig, kTx, kLog>>
runVars  == <<runpc, reprocess, store, runCfg, documents, doc_i, parse_result,
              processed_documents, skipped_documents, total_transaction_count,
              all_transactions, all_metadata, runLog>>
apiVars  == <<apc, api_max_retries, retry, api_response, api_body, api_sleeps>>
vars     == <<aiVars, jsonVars, cbaVars, catVars, runVars, apiVars>>

(***************************************************************************)
(* Bounds                                                                  *)
(***************************************************************************)
\* Largest number of entries in a modelled `transactions' array.
MaxTx == 2

(***************************************************************************)
(* C string and ctype helpers                                              *)
(***************************************************************************)
\* The NULL pointer where a char* is expected: no C string equals it.
Null == <<"NULL">>

\* The byte read at the terminator or outside the string.
NUL == "NUL"

At(s, p) == IF p \in 1..Len(s) THEN s[p] ELSE NUL

Digits == <<"0", "1", "2", "3", "4", "5", "6", "7", "8", "9">>

isdigit(c) == \E i \in 1..10 : Digits[i] = c

DigitVal(c) == (CHOOSE i \in 1..10 : Digits[i] = c) - 1

isspace(c) == c \in {" ", "\t", "\n", "\r", "\f"}

\* strlen: C strings end at the first NUL, modelled strings hold none.
strlen(s) == Len(s)

(***************************************************************************)
(* IEEE doubles as used for amounts: a value in cents, or NaN.             *)
(***************************************************************************)
Dbl(v) == [nan |-> FALSE, v |-> v]

NaN == [nan |-> TRUE, v |-> 0]

\* d > 0.0 (false for NaN)
DblPositive(d) == ~d.nan /\ d.v > 0

(***************************************************************************)
(* cJSON values.  An object member lookup that finds nothing (or is made   *)
(* on a non-object) yields the NULL item, JMissing.                        *)
(***************************************************************************)
JMissing == [t |-> "missing", n |-> 0, s |-> <<>>]

JNull == [t |-> "null", n |-> 0, s |-> <<>>]

JBool == [t |-> "bool", n |-> 1, s |-> <<>>]

JArr == [t |-> "array", n |-> 0, s |-> <<>>]

JObj == [t |-> "object", n |-> 0, s |-> <<>>]

JNum(x) == [t |-> "number", n |-> x, s |-> <<>>]

JStr(str) == [t |-> "string", n |-> 0, s |-> str]

cJSON_IsString(item) == item.t = "string"

cJSON_IsNumber(item) == item.t = "number"

cJSON_IsNull(item) == item.t = "null"

cJSON_IsArray(item) == item.t = "array"

\* NULL unless the item is a string
cJSON_GetStringValue(item) == IF cJSON_IsString(item) THEN item.s ELSE Null

\* NaN unless the item is a number
cJSON_GetNumberValue(item) == IF cJSON_IsNumber(item) THEN Dbl(item.n) ELSE NaN

(***************************************************************************)
(* is_valid_iso_date (ai_service.c:153-173)                                *)
(***************************************************************************)
\* One element of a bracket-free regular expression: "D" is [0-9], any other
\* string is that literal character.
ClassMatches(cls, c) == IF cls = "D" THEN isdigit(c) ELSE c = cls

\* The pattern "^[0-9]{4}-[0-9]{2}-[0-9]{2}$" with its repetitions unrolled.
IsoDatePattern == <<"D", "D", "D", "D", "-", "D", "D", "-", "D", "D">>

\* regexec() == 0 for a fixed-length pattern: some substring matches, at the
\* start of the string if anchored with ^, up to its end if anchored with $.
regexec(pattern, anchorStart, anchorEnd, str) ==
    \E st \in 1..(Len(str) + 1) :
        /\ anchorStart => st = 1
        /\ st + Len(pattern) - 1 <= Len(str)
        /\ anchorEnd => st + Len(pattern) - 1 = Len(str)
        /\ \A i \in 1..Len(pattern) : ClassMatches(pattern[i], str[st + i - 1])

\* Variant of is_valid_iso_date: the pattern without its ^ and $ anchors and
\* without the length test.
is_valid_iso_date_unanchored(date_str) ==
    /\ date_str # Null
    /\ regexec(IsoDatePattern, TRUE, FALSE, date_str)

is_valid_iso_date(date_str) ==
    /\ date_str # Null
    /\ strlen(date_str) = 10
    /\ regexec(IsoDatePattern, TRUE, TRUE, date_str)

\* amount >= 0.0
is_valid_amount(amount) == ~amount.nan /\ amount.v >= 0

(***************************************************************************)
(* validate_cba_json_response (ai_service.c:181-260)                       *)
(*                                                                         *)
(* A response body is [null, parses, account_number, statement_period,     *)
(* transactions, items]: `null' for a NULL json_str, `parses' for the      *)
(* verdict of cJSON_Parse, the three members as looked up by               *)
(* cJSON_GetObjectItem, and `items' the elements of `transactions' when    *)
(* that is an array.  An element is the record of its five member lookups. *)
(***************************************************************************)
\* One iteration of the cJSON_ArrayForEach body: TRUE when it does not return.
TransactionEntryOk(e) ==
    /\ ~(e.date = JMissing \/ e.description = JMissing \/ e.debit = JMissing
         \/ e.credit = JMissing \/ e.balance = JMissing)
    /\ ~(~cJSON_IsString(e.date) \/ ~is_valid_iso_date(cJSON_GetStringValue(e.date)))
    /\ ~(~cJSON_IsString(e.description))
    /\ ~(cJSON_IsNumber(e.debit) /\ ~is_valid_amount(cJSON_GetNumberValue(e.debit)))
    /\ ~(cJSON_IsNumber(e.credit) /\ ~is_valid_amount(cJSON_GetNumberValue(e.credit)))
    /\ ~(~cJSON_IsNumber(e.balance) \/ ~is_valid_amount(cJSON_GetNumberValue(e.balance)))

\* Variant of validate_cba_json_response: only the first array entry is looked at.
validate_first_entry_only(json_str) ==
    IF json_str.null THEN -1
    ELSE IF ~json_str.parses THEN -1
    ELSE IF ~cJSON_IsString(json_str.account_number) THEN -1
    ELSE IF ~cJSON_IsString(json_str.statement_period) THEN -1
    ELSE IF ~cJSON_IsArray(json_str.transactions) THEN -1
    ELSE IF Len(json_str.items) > 0 /\ ~TransactionEntryOk(json_str.items[1]) THEN -1
    ELSE 0

validate_cba_json_response(json_str) ==
    IF json_str.null THEN -1
    ELSE IF ~json_str.parses THEN -1
    ELSE IF ~cJSON_IsString(json_str.account_number) THEN -1
    ELSE IF ~cJSON_IsString(json_str.statement_period) THEN -1
    ELSE IF ~cJSON_IsArray(json_str.transactions) THEN -1
    ELSE IF \E i \in 1..Len(json_str.items) : ~TransactionEntryOk(json_str.items[i]) THEN -1
    ELSE 0

(***************************************************************************)
(* parse_cba_json_to_result (ai_service.c:263-328)                         *)
(* Allocation is taken to succeed; malloc(0) for an empty array returns a  *)
(* non-NULL pointer, as it does with glibc, musl and Darwin.               *)
(***************************************************************************)
\* The NULL ParseResult*
NoResult ==
    [null |-> TRUE, account_number |-> Null, statement_period |-> Null,
     transactions |-> <<>>, error_message |-> Null]

\* Body of the for loop at ai_service.c:304-324 for one array element.
JsonToTransaction(e) ==
    [date        |-> cJSON_GetStringValue(e.date),
     description |-> cJSON_GetStringValue(e.description),
     category    |-> Null,
     debit       |-> IF cJSON_IsNull(e.debit) THEN Dbl(0) ELSE cJSON_GetNumberValue(e.debit),
     credit      |-> IF cJSON_IsNull(e.credit) THEN Dbl(0) ELSE cJSON_GetNumberValue(e.credit)]

\* Variant of parse_cba_json_to_result: debit and credit exchanged.
parse_cba_json_swapped(json_str) ==
    IF json_str.null \/ validate_cba_json_response(json_str) # 0 THEN NoResult
    ELSE [null             |-> FALSE,
          account_number   |-> cJSON_GetStringValue(json_str.account_number),
          statement_period |-> cJSON_GetStringValue(json_str.statement_period),
          error_message    |-> Null,
          transactions     |-> [i \in 1..Len(json_str.items) |->
              [JsonToTransaction(json_str.items[i]) EXCEPT
                  !.debit = JsonToTransaction(json_str.items[i]).credit,
                  !.credit = JsonToTransaction(json_str.items[i]).debit]]]

parse_cba_json_to_result(json_str) ==
    IF json_str.null \/ validate_cba_json_response(json_str) # 0 THEN NoResult
    ELSE [null             |-> FALSE,
          account_number   |-> cJSON_GetStringValue(json_str.account_number),
          statement_period |-> cJSON_GetStringValue(json_str.statement_period),
          error_message    |-> Null,
          transactions     |-> [i \in 1..Len(json_str.items) |->
                                   JsonToTransaction(json_str.items[i])]]

(***************************************************************************)
(* Scanning primitives used by the CBA text parser                         *)
(***************************************************************************)
\* `F(v)' with v evaluated once, as a C local is: x = v; ... F(x) ...
Bind(v, F(_)) == CHOOSE r \in {F(x) : x \in {v}} : TRUE

\* Least and greatest element of a non-empty set of integers.
Least(S) == Bind(S, LAMBDA T : CHOOSE x \in T : \A y \in T : x <= y)

Greatest(S) == Bind(S, LAMBDA T : CHOOSE x \in T : \A y \in T : x >= y)

UpperCase == <<"A", "B", "C", "D", "E", "F", "G", "H", "I", "J", "K", "L", "M", "N", "O", "P", "Q", "R", "S", "T", "U", "V", "W", "X", "Y", "Z">>

LowerCase == <<"a", "b", "c", "d", "e", "f", "g", "h", "i", "j", "k", "l", "m", "n", "o", "p", "q", "r", "s", "t", "u", "v", "w", "x", "y", "z">>

tolower(c) ==
    IF \E i \in 1..26 : UpperCase[i] = c
    THEN LowerCase[CHOOSE i \in 1..26 : UpperCase[i] = c]
    ELSE c

\* strcasecmp(a, b) == 0
strcasecmp_eq(a, b) ==
    /\ Len(a) = Len(b)
    /\ \A i \in 1..Len(a) : tolower(a[i]) = tolower(b[i])

\* `while (*p && isspace(*p)) p++'
SkipSpace(s, p) == Least({q \in p..(Len(s) + 1) : ~isspace(At(s, q))})

\* `while (*p && !isspace(*p)) p++'
SkipNonSpace(s, p) == Least({q \in p..(Len(s) + 1) : q = Len(s) + 1 \/ isspace(s[q])})

\* `while (p > lo && isspace(*(p - 1))) p--'
TrimBack(s, p, lo) ==
    IF p <= lo THEN p
    ELSE Greatest({q \in lo..p : q = lo \/ ~isspace(At(s, q - 1))})

\* Characters the backward amount scans accept.
AmountChar(c) == isdigit(c) \/ c = "," \/ c = "."

\* `while (p > lo && (isdigit(p[-1]) || p[-1] == ',' || p[-1] == '.')) p--'
ScanAmountBack(s, p, lo) ==
    IF p <= lo THEN p
    ELSE Greatest({q \in lo..p : q = lo \/ ~AmountChar(At(s, q - 1))})

\* strstr(s, pat): index of the first occurrence, 0 for NULL
strstr(s, pat) ==
    Bind({i \in 1..(Len(s) - Len(pat) + 1) : SubSeq(s, i, i + Len(pat) - 1) = pat},
         LAMBDA hits : IF hits = {} THEN 0 ELSE Least(hits))

Take(s, n) == IF Len(s) <= n THEN s ELSE SubSeq(s, 1, n)

RECURSIVE DigitsValueTo(_, _)
\* Value of the decimal digits ds[1..n].
DigitsValueTo(ds, n) ==
    IF n = 0 THEN 0 ELSE 10 * DigitsValueTo(ds, n - 1) + DigitVal(ds[n])

\* Value of a string of decimal digits.
DigitsValue(ds) == Bind(ds, LAMBDA d : DigitsValueTo(d, Len(d)))

RECURSIVE NatToStr(_)
NatToStr(n) == IF n < 10 THEN <<Digits[n + 1]>> ELSE NatToStr(n \div 10) \o <<Digits[(n % 10) + 1]>>

\* printf "%d"
IntToStr(n) == IF n < 0 THEN <<"-">> \o NatToStr(-n) ELSE NatToStr(n)

\* printf "%0<w>d" for n >= 0
ZeroPad(n, w) ==
    Bind(NatToStr(n), LAMBDA d :
        IF Len(d) >= w THEN d ELSE [i \in 1..(w - Len(d)) |-> "0"] \o d)

\* scanf "%d" at p: skip white space, optional sign, at least one digit.
ScanInt(s, p) ==
    Bind(SkipSpace(s, p), LAMBDA st :
    Bind(IF At(s, st) \in {"+", "-"} THEN st + 1 ELSE st, LAMBDA ds :
    Bind(Least({q \in ds..(Len(s) + 1) : ~isdigit(At(s, q))}), LAMBDA de :
    Bind(DigitsValue(SubSeq(s, ds, de - 1)), LAMBDA mag :
        [ok |-> de > ds, val |-> IF At(s, st) = "-" THEN -mag ELSE mag, next |-> de]))))

\* scanf "%<w>s" at p: skip white space, then up to w non-space characters.
ScanStr(s, p, w) ==
    Bind(SkipSpace(s, p), LAMBDA st :
    Bind(Least({SkipNonSpace(s, st), st + w}), LAMBDA en :
        [ok |-> en > st, str |-> SubSeq(s, st, en - 1), next |-> en]))

\* sscanf(s, "%d %9s", &day, str): n is the return value.
sscanf_d_9s(s) ==
    Bind(ScanInt(s, 1), LAMBDA a :
    Bind(ScanStr(s, a.next, 9), LAMBDA b :
        IF ~a.ok THEN [n |-> 0, day |-> 0, str |-> <<>>]
        ELSE IF ~b.ok THEN [n |-> 1, day |-> a.val, str |-> <<>>]
        ELSE [n |-> 2, day |-> a.val, str |-> b.str]))

\* Variant of sscanf_period: when only the first year is read, the second
\* variable receives it too.
sscanf_period_copying_start(s, start0, end0) ==
    Bind(ScanInt(s, 1), LAMBDA d1 :
    Bind(ScanStr(s, d1.next, Len(s) + 1), LAMBDA s1 :
    Bind(ScanInt(s, s1.next), LAMBDA y1 :
    Bind(SkipSpace(s, y1.next), LAMBDA dash :
    Bind(ScanInt(s, IF At(s, dash) = "-" THEN dash + 1 ELSE dash), LAMBDA d2 :
    Bind(ScanStr(s, d2.next, Len(s) + 1), LAMBDA s2 :
    Bind(ScanInt(s, s2.next), LAMBDA y2 :
        IF ~(d1.ok /\ s1.ok /\ y1.ok) THEN [start_year |-> start0, end_year |-> end0]
        ELSE IF ~(At(s, dash) = "-" /\ d2.ok /\ s2.ok /\ y2.ok)
             THEN [start_year |-> y1.val, end_year |-> y1.val]
        ELSE [start_year |-> y1.val, end_year |-> y2.val])))))))

\* sscanf(period, "%*d %*s %d - %*d %*s %d", &start_year, &end_year): a
\* variable keeps its initial value when the scan stops before assigning it.
sscanf_period(s, start0, end0) ==
    Bind(ScanInt(s, 1), LAMBDA d1 :
    Bind(ScanStr(s, d1.next, Len(s) + 1), LAMBDA s1 :
    Bind(ScanInt(s, s1.next), LAMBDA y1 :
    Bind(SkipSpace(s, y1.next), LAMBDA dash :
    Bind(ScanInt(s, IF At(s, dash) = "-" THEN dash + 1 ELSE dash), LAMBDA d2 :
    Bind(ScanStr(s, d2.next, Len(s) + 1), LAMBDA s2 :
    Bind(ScanInt(s, s2.next), LAMBDA y2 :
        IF ~(d1.ok /\ s1.ok /\ y1.ok) THEN [start_year |-> start0, end_year |-> end0]
        ELSE IF ~(At(s, dash) = "-" /\ d2.ok /\ s2.ok /\ y2.ok)
             THEN [start_year |-> y1.val, end_year |-> end0]
        ELSE [start_year |-> y1.val, end_year |-> y2.val])))))))

\* sscanf(s, "%lf", &amount) on the text parse_cba_amount is left with, which
\* holds digits and '.' only: the longest prefix D*[.D*] with a digit in it.
\* The value is in cents; amount texts of the model carry at most two
\* fractional digits, for which it is exact.
sscanf_lf(s) ==
    Bind(Least({q \in 1..(Len(s) + 1) : ~isdigit(At(s, q))}), LAMBDA ie :
    Bind(IF At(s, ie) = "."
         THEN Least({q \in (ie + 1)..(Len(s) + 1) : ~isdigit(At(s, q))}) ELSE ie, LAMBDA fe :
    Bind(IF fe > ie THEN SubSeq(s, ie + 1, fe - 1) ELSE <<>>, LAMBDA frac :
        [ok |-> (ie > 1) \/ (fe > ie + 1),
         val |-> DigitsValue(SubSeq(s, 1, ie - 1)) * 100
                 + DigitsValue(Take(frac \o <<"0", "0">>, 2))])))

(***************************************************************************)
(* transaction.c                                                           *)
(***************************************************************************)
\* create_parse_result (transaction.c:82-93)
create_parse_result ==
    [null |-> FALSE, account_number |-> Null, statement_period |-> Null,
     transactions |-> <<>>, error_message |-> Null]

\* add_transaction_to_result (transaction.c:95-141), allocation succeeding
add_transaction_to_result(pr, date, description, debit, credit, category) ==
    [pr EXCEPT !.transactions =
        Append(@, [date |-> date, description |-> description, debit |-> debit,
                   credit |-> credit, category |-> category])]

(***************************************************************************)
(* cba_parser.c: the text parser                                           *)
(***************************************************************************)
RECURSIVE AccountEnd(_, _)
\* The `end' scan of extract_account_number (cba_parser.c:194-208).
AccountEnd(s, end0) ==
    Bind(end0, LAMBDA end :
        IF At(s, end) \in {NUL, "\n", "\r"} THEN end
        ELSE IF isspace(s[end])
             THEN Bind(SkipSpace(s, end), LAMBDA temp :
                      IF isdigit(At(s, temp)) THEN AccountEnd(s, temp) ELSE end)
        ELSE AccountEnd(s, end + 1))

\* `while (trim_end > str && isspace(*trim_end)) *trim_end-- = 0' on a
\* non-empty string: the first character always stays.
TrimTrailing(str) ==
    Bind(str, LAMBDA t : SubSeq(t, 1, Greatest({q \in 1..Len(t) : q = 1 \/ ~isspace(t[q])})))

\* `while (*start && (isspace(*start) || *start == ':')) start++'
SkipSpaceColon(s, p) ==
    Least({q \in p..(Len(s) + 1) : ~(isspace(At(s, q)) \/ At(s, q) = ":")})

L_AccountNumber == <<"A", "c", "c", "o", "u", "n", "t", " ", "N", "u", "m", "b", "e", "r">>

L_StatementPeriod == <<"S", "t", "a", "t", "e", "m", "e", "n", "t", " ", "P", "e", "r", "i", "o", "d">>

L_CR == <<" ", "C", "R">>

L_Paren == <<" ", "(">>

Months ==
    <<<<"J", "a", "n">>,
      <<"F", "e", "b">>,
      <<"M", "a", "r">>,
      <<"A", "p", "r">>,
      <<"M", "a", "y">>,
      <<"J", "u", "n">>,
      <<"J", "u", "l">>,
      <<"A", "u", "g">>,
      <<"S", "e", "p">>,
      <<"O", "c", "t">>,
      <<"N", "o", "v">>,
      <<"D", "e", "c">>>>

\* extract_account_number (cba_parser.c:183-228)
extract_account_number(s) ==
    Bind(strstr(s, L_AccountNumber), LAMBDA found :
        IF found = 0 THEN Null
        ELSE Bind(SkipSpaceColon(s, found + Len(L_AccountNumber)), LAMBDA start :
             Bind(AccountEnd(s, start), LAMBDA end :
                 IF end = start THEN Null
                 ELSE TrimTrailing(SubSeq(s, start, end - 1)))))

\* extract_statement_period (cba_parser.c:231-262)
extract_statement_period(s) ==
    Bind(strstr(s, L_StatementPeriod), LAMBDA found :
        IF found = 0 THEN Null
        ELSE Bind(SkipSpaceColon(s, found + Len(L_StatementPeriod)), LAMBDA start :
             Bind(Least({q \in start..(Len(s) + 1) : At(s, q) \in {NUL, "\n", "\r"}}),
                  LAMBDA end :
                 IF end = start THEN Null
                 ELSE TrimTrailing(SubSeq(s, start, end - 1)))))

\* Variant of ResolveYear: the first half of the year ends with May.
ResolveYearHalfShort(month, start_year, end_year) ==
    IF month <= 5 /\ start_year # end_year THEN end_year ELSE start_year

\* The year chosen at cba_parser.c:293-297.
ResolveYear(month, start_year, end_year) ==
    IF month <= 6 /\ start_year # end_year THEN end_year ELSE start_year

\* The month number found by the loop at cba_parser.c:276-283, -1 if none.
MonthNumber(month_str) ==
    Bind({i \in 1..12 : strcasecmp_eq(month_str, Months[i])}, LAMBDA hits :
        IF hits = {} THEN -1 ELSE Least(hits))

\* parse_cba_date (cba_parser.c:265-308): the ISO date, or Null
parse_cba_date(date_str, statement_period) ==
    IF date_str = Null THEN Null
    ELSE
    Bind(sscanf_d_9s(date_str), LAMBDA sc :
    Bind(MonthNumber(sc.str), LAMBDA month :
    Bind(IF statement_period = Null
         THEN [start_year |-> 2025, end_year |-> 2025]
         ELSE sscanf_period(statement_period, 2025, 2025), LAMBDA yrs :
    Bind(ResolveYear(month, yrs.start_year, yrs.end_year), LAMBDA year :
        IF sc.n # 2 \/ month = -1 THEN Null
        ELSE IF sc.day < 1 \/ sc.day > 31 \/ month < 1 \/ month > 12 \/ year < 1900 THEN Null
        ELSE Take(ZeroPad(year, 4) \o <<"-">> \o ZeroPad(month, 2) \o <<"-">>
                  \o ZeroPad(sc.day, 2), 10)))))

\* parse_cba_amount (cba_parser.c:519-566): [ok |-> return value, credit |-> *credit]
\* for the strings its callers pass (digits, ',', '.', '$'; no spaces).
parse_cba_amount(amount_str) ==
    Bind(SelectSeq(amount_str, LAMBDA c : c # "," /\ c # "$"), LAMBDA cleaned :
    Bind(sscanf_lf(cleaned), LAMBDA num :
        IF strlen(cleaned) = 0 \/ ~num.ok THEN [ok |-> FALSE, credit |-> Dbl(0)]
        ELSE [ok |-> TRUE, credit |-> Dbl(num.val)]))

\* The amount parsed from transaction_line[from .. to-1] through a 50-byte
\* buffer (cba_parser.c:390-401, 422-433, 470-481): 0.0 when it does not fit
\* or does not parse.
AmountField(line, from, to) ==
    IF to - from > 0 /\ to - from < 49
    THEN Bind(parse_cba_amount(SubSeq(line, from, to - 1)), LAMBDA p :
             IF p.ok THEN p.credit ELSE Dbl(0))
    ELSE Dbl(0)

\* cba_parser.c:340-349: the description starts after two fields.
DescStart(line) ==
    Bind(SkipSpace(line, SkipNonSpace(line, 1)), LAMBDA f1 :
        SkipSpace(line, SkipNonSpace(line, f1)))

\* cba_parser.c:355-373: [balance_pos, amounts_end] from the first " CR" and
\* the '$' before it; balance_pos = 0 when there is no " CR".
FindBalance(line, desc_start) ==
    Bind(strstr(line, L_CR), LAMBDA balance_pos :
        IF balance_pos = 0 THEN [balance_pos |-> 0, amounts_end |-> 0]
        ELSE Bind(Greatest({q \in 1..balance_pos : q = 1 \/ line[q] = "$"}),
                  LAMBDA balance_dollar :
                 [balance_pos |-> balance_pos,
                  amounts_end |-> TrimBack(line, balance_dollar, desc_start)]))

\* cba_parser.c:375-441: [debit, amounts_end].  The amount is looked for
\* before " (" when that lies left of amounts_end, else right before
\* amounts_end; both branches run the same backward scan.
FindDebit(line, desc_start, amounts_end) ==
    Bind(strstr(line, L_Paren), LAMBDA debit_pattern :
    Bind(IF debit_pattern # 0 /\ debit_pattern < amounts_end
         THEN debit_pattern ELSE amounts_end, LAMBDA debit_end :
    Bind(ScanAmountBack(line, debit_end, desc_start), LAMBDA debit_start :
        IF debit_start < debit_end /\ isdigit(At(line, debit_start))
        THEN [debit |-> AmountField(line, debit_start, debit_end),
              amounts_end |-> TrimBack(line, debit_start, desc_start)]
        ELSE [debit |-> Dbl(0), amounts_end |-> amounts_end])))

\* cba_parser.c:443-488: [credit, amounts_end] from the last '$' followed by
\* a digit in [desc_start, amounts_end).
FindCredit(line, desc_start, amounts_end) ==
    Bind({d \in desc_start..(amounts_end - 1) :
             At(line, d) = "$" /\ isdigit(At(line, d + 1))}, LAMBDA dollars :
        IF dollars = {} THEN [credit |-> Dbl(0), amounts_end |-> amounts_end]
        ELSE Bind(Greatest(dollars), LAMBDA credit_pos :
             Bind(Least({q \in (credit_pos + 1)..(Len(line) + 1) :
                            q >= amounts_end \/ ~AmountChar(At(line, q))}),
                  LAMBDA credit_end :
                 [credit |-> AmountField(line, credit_pos, credit_end),
                  amounts_end |-> TrimBack(line, credit_pos, desc_start)])))

\* cba_parser.c:490-502: the description buffer
ExtractDescription(line, desc_start, amounts_end) ==
    IF amounts_end - desc_start > 0 /\ amounts_end - desc_start < 499
    THEN TrimTrailing(SubSeq(line, desc_start, amounts_end - 1))
    ELSE <<>>

\* process_cba_transaction_line (cba_parser.c:314-516): the ParseResult after it
process_cba_transaction_line(transaction_line, result0) ==
    Bind(transaction_line, LAMBDA line :
    Bind(result0, LAMBDA pr :
    Bind(sscanf_d_9s(line), LAMBDA sc :
        IF sc.n # 2 THEN pr
        ELSE
    Bind(parse_cba_date(Take(IntToStr(sc.day) \o <<" ">> \o sc.str, 19),
                        pr.statement_period), LAMBDA iso_date :
        IF iso_date = Null THEN pr
        ELSE
    Bind(DescStart(line), LAMBDA desc_start :
    Bind(FindBalance(line, desc_start), LAMBDA bal :
        IF bal.balance_pos = 0 THEN pr
        ELSE
    Bind(FindDebit(line, desc_start, bal.amounts_end), LAMBDA deb :
    Bind(FindCredit(line, desc_start, deb.amounts_end), LAMBDA cre :
    Bind(ExtractDescription(line, desc_start, cre.amounts_end), LAMBDA description :
        IF strlen(description) > 0 /\ (DblPositive(deb.debit) \/ DblPositive(cre.credit))
        THEN add_transaction_to_result(pr, iso_date, description, deb.debit,
                                       cre.credit, Null)
        ELSE pr)))))))))

RECURSIVE strtok_lines(_, _)
\* The successive tokens strtok(content_copy, "\n\r") returns, from p on.
strtok_lines(s, p) ==
    Bind(Least({q \in p..(Len(s) + 1) : At(s, q) \notin {"\n", "\r"}}), LAMBDA st :
        IF st > Len(s) THEN <<>>
        ELSE Bind(Least({q \in st..(Len(s) + 1) : At(s, q) \in {NUL, "\n", "\r"}}),
                  LAMBDA en : <<SubSeq(s, st, en - 1)>> \o strtok_lines(s, en)))

\* A line opens a transaction (cba_parser.c:623).
IsTransactionStart(line) ==
    Bind(sscanf_d_9s(line), LAMBDA sc : sc.n = 2 /\ sc.day >= 1 /\ sc.day <= 31)

RECURSIVE GroupLines(_, _, _, _)
\* The while loop of parse_cba_statement (cba_parser.c:610-655): `cur0' is
\* current_transaction (Null when there is none), `pr0' the result so far.
GroupLines(lines, i, cur0, pr0) ==
    Bind(cur0, LAMBDA cur :
    Bind(pr0, LAMBDA pr :
        IF i > Len(lines)
        THEN IF cur # Null THEN process_cba_transaction_line(cur, pr) ELSE pr
        ELSE Bind(SubSeq(lines[i], SkipSpace(lines[i], 1), Len(lines[i])), LAMBDA line :
                 IF line = <<>> THEN GroupLines(lines, i + 1, cur, pr)
                 ELSE IF IsTransactionStart(line)
                      THEN GroupLines(lines, i + 1, line,
                              IF cur # Null THEN process_cba_transaction_line(cur, pr)
                              ELSE pr)
                 ELSE IF cur # Null
                      THEN GroupLines(lines, i + 1, cur \o <<" ">> \o line, pr)
                 ELSE GroupLines(lines, i + 1, cur, pr))))

\* parse_cba_statement (cba_parser.c:568-661), allocation succeeding
parse_cba_statement(content0) ==
    Bind(content0, LAMBDA text :
        IF text = Null THEN NoResult
        ELSE Bind(strtok_lines(text, 1), LAMBDA lines :
                 GroupLines(lines, 1, Null,
                     [create_parse_result EXCEPT
                         !.account_number = extract_account_number(text),
                         !.statement_period = extract_statement_period(text)])))

(***************************************************************************)
(* anz_parser.c: the text parser                                           *)
(***************************************************************************)
L_AnzAccountNumber ==
    <<"A", "C", "C", "O", "U", "N", "T", " ", "N", "U", "M", "B", "E", "R", ":">>

L_TxnDate == <<" ", "[", "T", "x", "n", " ", "D", "a", "t", "e", ":", " ">>

RECURSIVE AnzAccountEnd(_, _)
\* The `end' scan of extract_anz_account_number (anz_parser.c:21-35).
AnzAccountEnd(s, end0) ==
    Bind(end0, LAMBDA end :
        IF At(s, end) \in {NUL, "\n", "\r"} THEN end
        ELSE IF isspace(s[end])
             THEN Bind(SkipSpace(s, end), LAMBDA temp :
                      IF isdigit(At(s, temp)) \/ At(s, temp) = "-"
                      THEN AnzAccountEnd(s, temp) ELSE end)
        ELSE AnzAccountEnd(s, end + 1))

\* extract_anz_account_number (anz_parser.c:10-55)
extract_anz_account_number(s) ==
    Bind(strstr(s, L_AnzAccountNumber), LAMBDA found :
        IF found = 0 THEN Null
        ELSE Bind(SkipSpace(s, found + Len(L_AnzAccountNumber)), LAMBDA start :
             Bind(AnzAccountEnd(s, start), LAMBDA end :
                 IF end = start THEN Null
                 ELSE TrimTrailing(SubSeq(s, start, end - 1)))))

\* sscanf(s, "%d/%d/%d", &day, &month, &year): n is the return value.
sscanf_d_d_d(s) ==
    Bind(ScanInt(s, 1), LAMBDA a :
    Bind(ScanInt(s, IF At(s, a.next) = "/" THEN a.next + 1 ELSE a.next), LAMBDA b :
    Bind(ScanInt(s, IF At(s, b.next) = "/" THEN b.next + 1 ELSE b.next), LAMBDA c :
        IF ~a.ok THEN [n |-> 0, day |-> 0, month |-> 0, year |-> 0]
        ELSE IF ~(At(s, a.next) = "/" /\ b.ok)
             THEN [n |-> 1, day |-> a.val, month |-> 0, year |-> 0]
        ELSE IF ~(At(s, b.next) = "/" /\ c.ok)
             THEN [n |-> 2, day |-> a.val, month |-> b.val, year |-> 0]
        ELSE [n |-> 3, day |-> a.val, month |-> b.val, year |-> c.val])))

\* The test parse_anz_date and is_anz_transaction_line share
\* (anz_parser.c:62-65, 127-128).
AnzDateOk(sc) ==
    /\ sc.n = 3
    /\ sc.day >= 1 /\ sc.day <= 31
    /\ sc.month >= 1 /\ sc.month <= 12
    /\ sc.year >= 1900

\* parse_anz_date (anz_parser.c:58-73): snprintf keeps ten characters.
parse_anz_date(date_str) ==
    Bind(sscanf_d_d_d(date_str), LAMBDA sc :
        IF ~AnzDateOk(sc) THEN Null
        ELSE Take(ZeroPad(sc.year, 4) \o <<"-">> \o ZeroPad(sc.month, 2)
                  \o <<"-">> \o ZeroPad(sc.day, 2), 10))

RECURSIVE AnzClean(_, _, _)
\* The cleaning loop of parse_anz_amount (anz_parser.c:88-101) from index i
\* on, with `cleaned' so far.
AnzClean(s, i, cleaned) ==
    IF i > Len(s) \/ Len(cleaned) >= 99 THEN [cleaned |-> cleaned, has_cr |-> FALSE]
    ELSE IF s[i] \in {",", "$"} THEN AnzClean(s, i + 1, cleaned)
    ELSE IF s[i] = "C" /\ At(s, i + 1) = "R" THEN [cleaned |-> cleaned, has_cr |-> TRUE]
    ELSE IF s[i] = " " /\ Len(cleaned) > 0 /\ cleaned[Len(cleaned)] = " "
         THEN AnzClean(s, i + 1, cleaned)
    ELSE AnzClean(s, i + 1, Append(cleaned, s[i]))

\* sscanf(cleaned, "%lf", &amount) on text that may open with a sign; the
\* amount texts of the model spell no exponent, hexadecimal digits, inf or nan.
sscanf_lf_signed(s) ==
    Bind(SkipSpace(s, 1), LAMBDA st :
    Bind(IF At(s, st) \in {"+", "-"} THEN st + 1 ELSE st, LAMBDA ds :
    Bind(sscanf_lf(SubSeq(s, ds, Len(s))), LAMBDA m :
        [ok |-> m.ok, val |-> IF At(s, st) = "-" THEN -m.val ELSE m.val])))

\* Variant of parse_anz_amount that reads the CR suffix as the mark of the
\* debit column.
parse_anz_amount_cr_as_debit(amount_str) ==
    Bind(AnzClean(amount_str, 1, <<>>), LAMBDA c :
    Bind(sscanf_lf_signed(c.cleaned), LAMBDA a :
        IF ~a.ok THEN [ok |-> FALSE, debit |-> Dbl(0), credit |-> Dbl(0)]
        ELSE IF c.has_cr THEN [ok |-> TRUE, debit |-> Dbl(a.val), credit |-> Dbl(0)]
        ELSE [ok |-> TRUE, debit |-> Dbl(0), credit |-> Dbl(a.val)]))

\* parse_anz_amount (anz_parser.c:76-116): ok is the return value.
parse_anz_amount(amount_str) ==
    Bind(AnzClean(amount_str, 1, <<>>), LAMBDA c :
    Bind(sscanf_lf_signed(c.cleaned), LAMBDA a :
        IF ~a.ok THEN [ok |-> FALSE, debit |-> Dbl(0), credit |-> Dbl(0)]
        ELSE IF c.has_cr THEN [ok |-> TRUE, debit |-> Dbl(0), credit |-> Dbl(a.val)]
        ELSE [ok |-> TRUE, debit |-> Dbl(a.val), credit |-> Dbl(0)]))

\* is_anz_transaction_line (anz_parser.c:119-129)
is_anz_transaction_line(line) ==
    AnzDateOk(sscanf_d_d_d(SubSeq(line, SkipSpace(line, 1), Len(line))))

\* `while (p > lo && !isspace(*(p - 1))) p--'
NonSpaceBack(s, p, lo) ==
    IF p <= lo THEN p
    ELSE Greatest({q \in lo..p : q = lo \/ isspace(At(s, q - 1))})

\* The position txn_amount_end reaches (anz_parser.c:168-174), from
\* balance_start > 1.
TxnAmountEnd(s, balance_start) ==
    Bind(Greatest({q \in 1..(balance_start - 1) : q = 1 \/ ~isspace(s[q])}), LAMBDA e :
        IF s[e] # "$" /\ e > 1
        THEN Greatest({q \in 1..e : q = 1 \/ s[q] = "$"})
        ELSE e)

\* `p' after the three-field skip (anz_parser.c:202-210).
AnzDescStart(s) ==
    Bind(SkipSpace(s, SkipNonSpace(s, 1)), LAMBDA p1 :
    Bind(SkipSpace(s, SkipNonSpace(s, p1)), LAMBDA p2 :
        SkipSpace(s, SkipNonSpace(s, p2))))

\* The rest of process_anz_transaction_line (anz_parser.c:185-249) once
\* txn_amount_end stands on a '$'.
AnzEmit(s, fields, balance_start, txn_amount_end, pr) ==
    Bind(NonSpaceBack(s, txn_amount_end, 1), LAMBDA txn_amount_start :
    Bind(Least({q \in (txn_amount_end + 1)..balance_start :
                   q = balance_start \/ isspace(s[q])}) - txn_amount_start,
         LAMBDA amount_len :
    Bind(IF amount_len > 0 /\ amount_len < 49
         THEN TrimTrailing(SubSeq(s, txn_amount_start, txn_amount_start + amount_len - 1))
         ELSE <<>>, LAMBDA amount_str :
    Bind(AnzDescStart(s), LAMBDA p :
    Bind(IF p < txn_amount_start /\ txn_amount_start - p < 499
         THEN TrimTrailing(SubSeq(s, p, txn_amount_start - 1))
         ELSE <<>>, LAMBDA description :
    Bind(parse_anz_amount(amount_str), LAMBDA am :
    Bind(parse_anz_date(fields.processed_date), LAMBDA iso_date :
        IF ~am.ok \/ iso_date = Null THEN pr
        ELSE IF fields.processed_date # fields.transaction_date
        THEN add_transaction_to_result(pr, iso_date,
                 description \o L_TxnDate \o fields.transaction_date \o <<"]">>,
                 am.debit, am.credit, Null)
        ELSE add_transaction_to_result(pr, iso_date, description,
                 am.debit, am.credit, Null))))))))

\* sscanf(line_copy, "%14s %14s %9s", processed_date, transaction_date, card)
sscanf_anz_fields(s) ==
    Bind(ScanStr(s, 1, 14), LAMBDA f1 :
    Bind(ScanStr(s, f1.next, 14), LAMBDA f2 :
    Bind(ScanStr(s, f2.next, 9), LAMBDA f3 :
        [parsed |-> IF ~f1.ok THEN 0 ELSE IF ~f2.ok THEN 1 ELSE IF ~f3.ok THEN 2 ELSE 3,
         processed_date |-> f1.str, transaction_date |-> f2.str, card |-> f3.str])))

\* process_anz_transaction_line (anz_parser.c:132-255).  When the token
\* holding the last '$' opens the line, balance_start - 1 lies before the
\* line and the byte read there is not the line's: whatever it is, no
\* transaction is added (a '$' there leaves the amount text "$", which
\* parse_anz_amount rejects).
process_anz_transaction_line(line0, pr) ==
    Bind(SubSeq(line0, SkipSpace(line0, 1), Len(line0)), LAMBDA s :
    Bind(sscanf_anz_fields(s), LAMBDA fields :
    Bind({q \in 1..Len(s) : s[q] = "$"}, LAMBDA dollars :
        IF s = <<>> \/ fields.parsed < 3 \/ dollars = {} THEN pr
        ELSE Bind(NonSpaceBack(s, Greatest(dollars), 1), LAMBDA balance_start :
                 IF balance_start = 1 THEN pr
                 ELSE Bind(TxnAmountEnd(s, balance_start), LAMBDA txn_amount_end :
                          IF s[txn_amount_end] # "$" THEN pr
                          ELSE AnzEmit(s, fields, balance_start, txn_amount_end, pr))))))

RECURSIVE AnzLines(_, _, _)
\* The line loop of parse_anz_statement (anz_parser.c:280-289) from line i.
AnzLines(lines, i, pr) ==
    IF i > Len(lines) THEN pr
    ELSE AnzLines(lines, i + 1,
             IF is_anz_transaction_line(lines[i])
             THEN process_anz_transaction_line(lines[i], pr) ELSE pr)

\* Variant of parse_anz_statement that treats the empty string as absent
\* content.
parse_anz_statement_rejecting_empty(content0) ==
    Bind(content0, LAMBDA text :
        IF text = Null \/ text = <<>> THEN NoResult
        ELSE AnzLines(strtok_lines(text, 1), 1,
                 [create_parse_result EXCEPT
                     !.account_number = extract_anz_account_number(text)]))

\* parse_anz_statement (anz_parser.c:257-296), allocation succeeding
parse_anz_statement(content0) ==
    Bind(content0, LAMBDA text :
        IF text = Null THEN NoResult
        ELSE AnzLines(strtok_lines(text, 1), 1,
                 [create_parse_result EXCEPT
                     !.account_number = extract_anz_account_number(text)]))

(***************************************************************************)
(* Response bodies the JSON functions are exercised on                     *)
(***************************************************************************)
S_Acct == <<"0", "6", " ", "4", "1", "4", "4">>

S_Period == <<"1", " ", "M", "a", "y", " ", "2", "0", "2", "5", " ", "-", " ", "3", "1", " ", "O", "c", "t", " ", "2", "0", "2", "5">>

S_Salary == <<"S", "a", "l", "a", "r", "y">>

S_Rent == <<"R", "e", "n", "t">>

S_Date0630 == <<"2", "0", "2", "5", "-", "0", "6", "-", "3", "0">>

S_Date0231 == <<"2", "0", "2", "5", "-", "0", "2", "-", "3", "1">>

S_Date1340 == <<"2", "0", "2", "5", "-", "1", "3", "-", "4", "0">>

S_DateSlash == <<"3", "0", "/", "0", "6", "/", "2", "0", "2", "5">>

S_Amount == <<"1", "2", ".", "5", "0">>

\* Every value a member lookup is tried with.
MemberValues ==
    {JMissing, JNull, JBool, JArr, JObj, JNum(-500000), JNum(0), JNum(1250),
     JStr(S_Amount), JStr(S_Date0231), JStr(S_DateSlash)}

\* The entry of tests/test_ai_service.c:58-64 and a debit entry.
GoodEntries ==
    {[date |-> JStr(S_Date0630), description |-> JStr(S_Salary),
      debit |-> JNull, credit |-> JNum(500000), balance |-> JNum(500000)],
     [date |-> JStr(S_Date1340), description |-> JStr(S_Rent),
      debit |-> JNum(1250), credit |-> JNull, balance |-> JNum(0)]}

\* A good entry with at most one member replaced.
Entries ==
    GoodEntries \cup
    UNION {{[e EXCEPT !.date = v], [e EXCEPT !.description = v],
            [e EXCEPT !.debit = v], [e EXCEPT !.credit = v],
            [e EXCEPT !.balance = v]} : e \in {CHOOSE g \in GoodEntries : g.debit = JNull},
                                         v \in MemberValues}

\* The entries longer arrays are built from: the good ones and one entry per
\* member with that member unacceptable or of an unexpected type.
SeqEntries ==
    LET e == CHOOSE g \in GoodEntries : g.debit = JNull
    IN  GoodEntries \cup
        {[e EXCEPT !.date = JStr(S_DateSlash)], [e EXCEPT !.description = JMissing],
         [e EXCEPT !.debit = JBool], [e EXCEPT !.debit = JNum(-500000)],
         [e EXCEPT !.credit = JNum(-500000)], [e EXCEPT !.credit = JStr(S_Amount)],
         [e EXCEPT !.balance = JNull]}

RECURSIVE SeqsUpTo(_, _)
SeqsUpTo(S, n) ==
    IF n = 0 THEN {<<>>}
    ELSE SeqsUpTo(S, n - 1) \cup
         {Append(q, x) : q \in {r \in SeqsUpTo(S, n - 1) : Len(r) = n - 1}, x \in S}

\* The NULL char* where a response body is expected.
NoBody ==
    [null |-> TRUE, parses |-> FALSE, account_number |-> JMissing,
     statement_period |-> JMissing, transactions |-> JMissing, items |-> <<>>]

GoodBody(items) ==
    [null |-> FALSE, parses |-> TRUE, account_number |-> JStr(S_Acct),
     statement_period |-> JStr(S_Period), transactions |-> JArr, items |-> items]

\* Date strings one edit away from a well-shaped date.
DateEdits ==
    LET base == S_Date0231
        cs == {"0", "9", "-", "/", "a", " "}
    IN  {[base EXCEPT ![i] = c] : i \in 1..10, c \in cs}
        \cup {SubSeq(base, 1, i - 1) \o SubSeq(base, i + 1, 10) : i \in 1..10}
        \cup {SubSeq(base, 1, i - 1) \o <<c>> \o SubSeq(base, i, 10) : i \in 1..11, c \in cs}
        \cup {<<>>, S_Date0231, S_Date1340, S_DateSlash}

JsonInputs ==
    \* a NULL json_str and a body cJSON_Parse rejects
    {NoBody, [GoodBody(<<>>) EXCEPT !.parses = FALSE]}
    \* a single entry of every kind, and arrays of up to MaxTx entries
    \cup {GoodBody(<<e>>) : e \in Entries}
    \cup {GoodBody(items) : items \in SeqsUpTo(SeqEntries, MaxTx)}
    \* one top-level member replaced
    \cup UNION {{[GoodBody(items) EXCEPT !.account_number = v],
                 [GoodBody(items) EXCEPT !.statement_period = v],
                 [GoodBody(items) EXCEPT !.transactions = v, !.items = <<>>]} :
                    items \in SeqsUpTo(GoodEntries, 1),
                    v \in {JMissing, JNull, JNum(0), JObj, JStr(S_Acct)}}
    \* one entry whose date is an arbitrary near-miss
    \cup {GoodBody(<<[e EXCEPT !.date = JStr(d)]>>) : e \in GoodEntries, d \in DateEdits}

(***************************************************************************)
(* SpecJson: the two JSON entry points applied to every modelled body      *)
(***************************************************************************)
IdleAi ==
    /\ pc = "idle" /\ cfg = <<>> /\ content = Null /\ attempt = 0 /\ result = -1
    /\ response = NoBody /\ callLog = <<>> /\ requests = 0 /\ sleeps = <<>>
    /\ aiResult = NoResult /\ outcome = NoResult /\ source = "none"
    /\ temp_file = "none"

IdleJson ==
    /\ jpc = "idle" /\ jInput = GoodBody(<<>>) /\ jValid = -1 /\ jResult = NoResult

IdleCba ==
    /\ tpc = "idle" /\ tInput = Null /\ tResult = NoResult

IdleCat ==
    /\ kpc = 0 /\ kConfig = <<>> /\ kTx = <<>> /\ kLog = <<>>

IdleApi ==
    /\ apc = "idle" /\ api_max_retries = 0 /\ retry = 0
    /\ api_response = [memory |-> <<>>, size |-> 0, freed |-> FALSE]
    /\ api_body = <<>> /\ api_sleeps = <<>>

IdleRun ==
    /\ runpc = "idle" /\ reprocess = FALSE /\ store = <<>> /\ runCfg = <<>>
    /\ documents = <<>> /\ doc_i = 0 /\ parse_result = NoResult
    /\ processed_documents = 0 /\ skipped_documents = 0
    /\ total_transaction_count = 0
    /\ all_transactions = <<>> /\ all_metadata = <<>> /\ runLog = <<>>

InitJson ==
    /\ IdleAi /\ IdleCba /\ IdleCat /\ IdleRun /\ IdleApi
    /\ jpc = "input"
    /\ jInput \in JsonInputs
    /\ jValid = -1
    /\ jResult = NoResult

\* A caller invokes validate_cba_json_response on the body.
Validate ==
    /\ jpc = "input"
    /\ jpc' = "validated"
    /\ jValid' = validate_cba_json_response(jInput)
    /\ UNCHANGED <<jInput, jResult, aiVars, apiVars, cbaVars, catVars, runVars>>

\* A caller invokes parse_cba_json_to_result on the body.
ParseJson ==
    /\ jpc = "input"
    /\ jpc' = "parsed"
    /\ jResult' = parse_cba_json_to_result(jInput)
    /\ UNCHANGED <<jInput, jValid, aiVars, apiVars, cbaVars, catVars, runVars>>

NextJson == Validate \/ ParseJson

SpecJson == InitJson /\ [][NextJson]_vars

(***************************************************************************)
(* Spec: parse_cba_statement_with_id and the AI path below it              *)
(***************************************************************************)
\* `max_retries' of ai_service_parse_pdf
max_retries == 3

RECURSIVE Pow2(_)
\* (int)pow(2, n)
Pow2(n) == IF n = 0 THEN 1 ELSE 2 * Pow2(n - 1)

\* sample_content of tests/test_parsers.c:56-60
SampleStatement ==
    <<"A", "c", "c", "o", "u", "n", "t", " ", "N", "u", "m", "b", "e", "r", ":", " ", "0", "6", " ", "4", "1", "4", "4", " ", "1", "0", "1", "8", "1", "1", "6", "6", "\n", "S", "t", "a", "t", "e", "m", "e", "n", "t", " ", "P", "e", "r", "i", "o", "d", ":", " ", "1", " ", "M", "a", "y", " ", "2", "0", "2", "5", " ", "-", " ", "3", "1", " ", "O", "c", "t", " ", "2", "0", "2", "5", "\n", "T", "r", "a", "n", "s", "a", "c", "t", "i", "o", "n", " ", "D", "e", "t", "a", "i", "l", "s", "\n", "3", "0", " ", "M", "a", "y", " ", "S", "a", "l", "a", "r", "y", " ", "A", "C", "M", "E", " ", "C", "O", "R", "P", "O", "R", "A", "T", "I", "O", "N", " ", "$", "5", ",", "0", "0", "0", ".", "0", "0", " ", "$", "5", ",", "0", "0", "0", ".", "0", "0", " ", "C", "R", "\n">>

\* Document texts the dispatch is exercised on: none, empty, the sample.
Contents == {Null, <<>>, SampleStatement}

\* Bodies a provider may answer with.
ProviderBodies ==
    {GoodBody(<<>>),
     GoodBody(<<CHOOSE g \in GoodEntries : g.debit = JNull>>),
     GoodBody(<<[(CHOOSE g \in GoodEntries : g.debit = JNull) EXCEPT !.credit = JNum(-500000)]>>),
     [GoodBody(<<>>) EXCEPT !.account_number = JMissing],
     [GoodBody(<<>>) EXCEPT !.parses = FALSE]}

\* The configuration and environment a call runs in.  entry: the function
\* called; hasCbaConfig: g_config && g_config->cba_config; method, provider:
\* cba_config's strings ("NULL" when unset); providerConfig: the provider's
\* AIProviderConfig, "NULL", "partial" (model or base_url unset) or "full";
\* apiKey: the credential resolves to a non-NULL string.
Configs ==
    [entry : {"with_id"}, hasCbaConfig : {FALSE}, method : {"NULL"},
     provider : {"NULL"}, providerConfig : {"NULL"}, apiKey : {FALSE}]
    \cup
    [entry : {"with_id"}, hasCbaConfig : {TRUE}, method : {"NULL", "content"},
     provider : {"anthropic"}, providerConfig : {"full"}, apiKey : {TRUE}]
    \cup
    [entry : {"with_id"}, hasCbaConfig : {TRUE}, method : {"ai"},
     provider : {"NULL", "anthropic", "openrouter", "llamacpp", "gemini"},
     providerConfig : {"NULL", "partial", "full"}, apiKey : BOOLEAN]
    \cup
    [entry : {"ai_service_parse_pdf"}, hasCbaConfig : {TRUE}, method : {"ai"},
     provider : {"anthropic", "openrouter", "llamacpp", "gemini"},
     providerConfig : {"full"}, apiKey : BOOLEAN]

\* should_use_ai_parsing (cba_parser.c:22-38)
should_use_ai_parsing(c) ==
    IF ~c.hasCbaConfig THEN FALSE
    ELSE IF c.method = "NULL" THEN FALSE
    ELSE c.method = "ai"

\* create_cba_ai_config with create_ai_service_config (cba_parser.c:41-74,
\* ai_service.c:42-64): TRUE when an AIServiceConfig is returned.
create_cba_ai_config(c) ==
    IF ~c.hasCbaConfig THEN FALSE
    ELSE IF c.provider = "NULL" THEN FALSE
    ELSE IF c.provider \notin {"anthropic", "openrouter", "llamacpp"} THEN FALSE
    ELSE IF c.providerConfig = "NULL" THEN FALSE
    ELSE c.providerConfig = "full"

\* What one anthropic_call_api call can do (ai_service.c:331-450).
AnthropicOutcomes(c) ==
    IF ~c.apiKey THEN {"no_key"}
    ELSE {"curl_init_failed", "transport_error", "http_error", "empty_response", "ok"}

\* The call made by one loop iteration (ai_service.c:498-506): "unsupported"
\* is the break for an unknown provider.
CallOutcomes(c) ==
    CASE c.provider = "anthropic" -> AnthropicOutcomes(c)
      [] c.provider = "openrouter" -> {"not_implemented"}
      [] c.provider = "llamacpp" -> {"not_implemented"}
      [] OTHER -> {"unsupported"}

\* Outcomes in which curl_easy_perform ran.
SentRequest(o) == o \in {"transport_error", "http_error", "empty_response", "ok"}

Init ==
    /\ IdleJson /\ IdleCba /\ IdleCat /\ IdleRun /\ IdleApi
    /\ pc = "start"
    /\ cfg \in Configs
    /\ content \in Contents
    /\ attempt = 0
    /\ result = -1
    /\ response = NoBody
    /\ callLog = <<>>
    /\ requests = 0
    /\ sleeps = <<>>
    /\ aiResult = NoResult
    /\ outcome = NoResult
    /\ source = "none"
    /\ temp_file = "none"

\* Variant of ReturnFrom: the AI result is returned even when it is NULL.
ReturnFromNoFallback(ai) ==
    /\ pc' = "done"
    /\ aiResult' = ai
    /\ outcome' = ai
    /\ source' = IF ai.null THEN "none" ELSE "ai"
    /\ temp_file' = IF cfg.entry = "ai_service_parse_pdf" THEN temp_file ELSE "deleted"

\* Variant of ReturnFrom: the temporary file is removed only when the AI
\* result is returned.
ReturnFromKeepingFile(ai) ==
    /\ pc' = "done"
    /\ aiResult' = ai
    /\ IF cfg.entry = "ai_service_parse_pdf"
       THEN outcome' = ai /\ source' = (IF ai.null THEN "none" ELSE "ai")
            /\ temp_file' = temp_file
       ELSE IF ~ai.null
            THEN outcome' = ai /\ source' = "ai" /\ temp_file' = "deleted"
            ELSE outcome' = parse_cba_statement(content) /\ source' = "text"
                 /\ temp_file' = temp_file

\* The return of parse_cba_statement_with_id once the AI attempt has ended
\* with `ai' (cba_parser.c:688-699: the temporary file is unlinked, then the
\* AI result or the text parser's is returned), or of ai_service_parse_pdf
\* itself, which leaves its caller's file alone.
ReturnFrom(ai) ==
    /\ pc' = "done"
    /\ aiResult' = ai
    /\ temp_file' = IF cfg.entry = "ai_service_parse_pdf" THEN temp_file ELSE "deleted"
    /\ IF cfg.entry = "ai_service_parse_pdf"
       THEN outcome' = ai /\ source' = IF ai.null THEN "none" ELSE "ai"
       ELSE IF ~ai.null
            THEN outcome' = ai /\ source' = "ai"
            ELSE outcome' = parse_cba_statement(content) /\ source' = "text"

\* Entry of parse_cba_statement_with_id (cba_parser.c:664-675, 700-703), or
\* of ai_service_parse_pdf called on its own (ai_service.c:481-484).
Begin ==
    /\ pc = "start"
    /\ IF cfg.entry = "ai_service_parse_pdf"
       THEN pc' = "encode" /\ UNCHANGED <<outcome, source, runVars>>
       ELSE IF content = Null
            THEN pc' = "done" /\ outcome' = NoResult /\ source' = "none"
       ELSE IF should_use_ai_parsing(cfg)
            THEN pc' = "download" /\ UNCHANGED <<outcome, source, runVars>>
       ELSE pc' = "done" /\ outcome' = parse_cba_statement(content) /\ source' = "text"
    /\ UNCHANGED <<cfg, content, attempt, result, response, callLog, requests,
                   sleeps, aiResult, temp_file, jsonVars, apiVars, cbaVars, catVars, runVars>>

\* download_pdf_from_paperless and the fallback on its failure
\* (cba_parser.c:111-180, 677-681): the routine fails before the file is
\* created (126-147), or creates it and unlinks it when the transfer fails
\* (167-175), or leaves it for the caller.
Download ==
    /\ pc = "download"
    /\ \E o \in {"not_created", "transfer_failed", "downloaded"} :
          IF o = "downloaded"
          THEN pc' = "config" /\ temp_file' = "present"
               /\ UNCHANGED <<outcome, source, runVars>>
          ELSE pc' = "done" /\ outcome' = parse_cba_statement(content) /\ source' = "text"
               /\ temp_file' = IF o = "transfer_failed" THEN "deleted" ELSE temp_file
    /\ UNCHANGED <<cfg, content, attempt, result, response, callLog, requests,
                   sleeps, aiResult, jsonVars, apiVars, cbaVars, catVars, runVars>>

\* parse_cba_with_ai up to its call of ai_service_parse_pdf
\* (cba_parser.c:77-92).
CreateConfig ==
    /\ pc = "config"
    /\ IF create_cba_ai_config(cfg) /\ cfg.apiKey
       THEN pc' = "encode" /\ UNCHANGED <<aiResult, outcome, source, temp_file, runVars>>
       ELSE ReturnFrom(NoResult)
    /\ UNCHANGED <<cfg, content, attempt, result, response, callLog, requests,
                   sleeps, jsonVars, apiVars, cbaVars, catVars, runVars>>

\* pdf_to_base64 and the loop set-up (ai_service.c:486-494).
Encode ==
    /\ pc = "encode"
    /\ \E readable \in BOOLEAN :
          IF readable
          THEN /\ pc' = "call"
               /\ attempt' = 0 /\ result' = -1 /\ response' = NoBody
               /\ UNCHANGED <<aiResult, outcome, source, temp_file, runVars>>
          ELSE ReturnFrom(NoResult) /\ UNCHANGED <<attempt, result, response, runVars>>
    /\ UNCHANGED <<cfg, content, callLog, requests, sleeps, jsonVars, apiVars, cbaVars, catVars, runVars>>

\* One iteration of the retry loop (ai_service.c:497-522) for a loop bound
\* `limit' and a backoff guard `attempt < guard': the provider call, the
\* success test, and on failure the clean-up and the backoff sleep.
LoopIteration(limit, guard) ==
    /\ pc = "call"
    /\ attempt <= limit
    /\ \E o \in CallOutcomes(cfg), body \in ProviderBodies :
          IF o = "unsupported"
          THEN /\ pc' = "parse"
               /\ UNCHANGED <<attempt, result, response, callLog, requests, sleeps, runVars>>
          ELSE /\ callLog' = Append(callLog, o)
               /\ requests' = requests + (IF SentRequest(o) THEN 1 ELSE 0)
               /\ result' = IF o = "ok" THEN 0 ELSE -1
               /\ IF o = "ok"
                  THEN /\ response' = body
                       /\ pc' = "parse"
                       /\ UNCHANGED <<attempt, sleeps, runVars>>
                  ELSE /\ response' = NoBody
                       /\ sleeps' = IF attempt < guard
                                    THEN Append(sleeps, Pow2(attempt)) ELSE sleeps
                       /\ attempt' = attempt + 1
                       /\ pc' = IF attempt + 1 <= limit THEN "call" ELSE "parse"
    /\ UNCHANGED <<cfg, content, aiResult, outcome, source, temp_file, jsonVars, apiVars, cbaVars,
                   catVars, runVars>>

\* Variant of Attempt: the loop bound one too large.
AttemptOneMore == LoopIteration(max_retries + 1, max_retries)

\* Variant of Attempt: the backoff sleep also follows the last attempt.
AttemptSleepAfterLast == LoopIteration(max_retries, max_retries + 1)

\* for (attempt = 0; attempt <= max_retries; attempt++) { ... }
Attempt == LoopIteration(max_retries, max_retries)

\* Variant of ParseResponse: a body failing validation re-enters the loop.
ParseResponseRetrying ==
    /\ pc = "parse"
    /\ IF result # 0 \/ response.null
       THEN ReturnFrom(NoResult) /\ UNCHANGED <<attempt, result, response, runVars>>
       ELSE IF validate_cba_json_response(response) # 0 /\ attempt < max_retries
            THEN /\ pc' = "call" /\ attempt' = attempt + 1
                 /\ result' = -1 /\ response' = NoBody
                 /\ UNCHANGED <<aiResult, outcome, source, temp_file, runVars>>
       ELSE ReturnFrom(parse_cba_json_to_result(response))
            /\ UNCHANGED <<attempt, result, response, runVars>>
    /\ UNCHANGED <<cfg, content, callLog, requests, sleeps, jsonVars, apiVars, cbaVars, catVars, runVars>>

\* The end of ai_service_parse_pdf (ai_service.c:524-537) and what its
\* callers return (cba_parser.c:92-101, 686-699).
ParseResponse ==
    /\ pc = "parse"
    /\ IF result # 0 \/ response.null
       THEN ReturnFrom(NoResult)
       ELSE ReturnFrom(parse_cba_json_to_result(response))
    /\ UNCHANGED <<cfg, content, attempt, result, response, callLog, requests,
                   sleeps, jsonVars, apiVars, cbaVars, catVars, runVars>>

Next == Begin \/ Download \/ CreateConfig \/ Encode \/ Attempt \/ ParseResponse

Spec == Init /\ [][Next]_vars

(***************************************************************************)
(* Properties of the JSON entry points (checked under SpecJson)            *)
(***************************************************************************)
EntryMembers(e) == <<e.date, e.description, e.debit, e.credit, e.balance>>

\* A body lacking a required member, or with a negative amount in an entry.
Deficient(b) ==
    \/ JMissing \in {b.account_number, b.statement_period, b.transactions}
    \/ \E i \in 1..Len(b.items) :
          \/ \E k \in 1..5 : EntryMembers(b.items[i])[k] = JMissing
          \/ \E m \in {b.items[i].debit, b.items[i].credit, b.items[i].balance} :
                m.t = "number" /\ m.n < 0

\* C6: a response missing a required member (top-level account_number,
\* statement_period, transactions; per-entry date, description, debit,
\* credit, balance) or holding a negative debit, credit or balance in any
\* entry makes validate_cba_json_response return failure and
\* parse_cba_json_to_result return no ParseResult, however many of its
\* other entries are valid.
C6_DeficientRejectedWhole ==
    /\ (jpc = "validated" /\ Deficient(jInput)) => jValid = -1
    /\ (jpc = "parsed" /\ Deficient(jInput)) => jResult = NoResult

C6_Witness ==
    /\ jpc = "parsed"
    /\ Len(jInput.items) = 2
    /\ jInput.items[1] \in GoodEntries
    /\ jInput.items[2].credit = JNum(-500000)
    /\ jResult = NoResult

AmountNullOrNonNegative(m) == m.t = "null" \/ (m.t = "number" /\ m.n >= 0)

\* C7: a response passes validation only if every entry's debit and credit
\* is null or a non-negative number, so that no Transaction is built from an
\* amount of another JSON type.
C7_AmountsNullOrNumber ==
    /\ (jpc = "validated" /\ jValid = 0) =>
          \A i \in 1..Len(jInput.items) :
              /\ AmountNullOrNonNegative(jInput.items[i].debit)
              /\ AmountNullOrNonNegative(jInput.items[i].credit)
    /\ (jpc = "parsed" /\ ~jResult.null) =>
          \A i \in 1..Len(jResult.transactions) :
              /\ ~jResult.transactions[i].debit.nan
              /\ ~jResult.transactions[i].credit.nan

\* 4 digits, '-', 2 digits, '-', 2 digits and nothing else
IsoShape(m) ==
    /\ m.t = "string"
    /\ Len(m.s) = 10
    /\ m.s[5] = "-" /\ m.s[8] = "-"
    /\ \A i \in {1, 2, 3, 4, 6, 7, 9, 10} : m.s[i] \in {Digits[k] : k \in 1..10}

\* The body with every entry's date replaced by a well-shaped one.
WithGoodDates(b) ==
    [b EXCEPT !.items = [i \in 1..Len(b.items) |->
                            [b.items[i] EXCEPT !.date = JStr(S_Date0630)]]]

\* C8: an entry's date passes validation exactly when it is a string of the
\* shape DDDD-DD-DD: in a body that is otherwise acceptable, validation
\* succeeds if and only if every date has that shape, whatever calendar day
\* the digits denote; and no body with a date of another shape is accepted.
C8_DateShapeOnly ==
    jpc = "validated" =>
        /\ validate_cba_json_response(WithGoodDates(jInput)) = 0 =>
              (jValid = 0 <=> \A i \in 1..Len(jInput.items) : IsoShape(jInput.items[i].date))
        /\ jValid = 0 => \A i \in 1..Len(jInput.items) : IsoShape(jInput.items[i].date)

C8_Witness ==
    /\ jpc = "validated"
    /\ jValid = 0
    /\ Len(jInput.items) = 1
    /\ jInput.items[1].date = JStr(S_Date0231)

\* C9: for a body that passes validation, parse_cba_json_to_result returns a
\* ParseResult without error carrying the body's account_number and
\* statement_period and one Transaction per entry in the same order, with
\* the entry's date and description, a null debit/credit as 0 and a numeric
\* one copied, no category, and no balance.
C9_ValidBodyMapped ==
    (jpc = "parsed" /\ validate_cba_json_response(jInput) = 0) =>
        /\ ~jResult.null
        /\ jResult.error_message = Null
        /\ jResult.account_number = jInput.account_number.s
        /\ jResult.statement_period = jInput.statement_period.s
        /\ Len(jResult.transactions) = Len(jInput.items)
        /\ \A i \in 1..Len(jInput.items) :
              LET e == jInput.items[i]
                  t == jResult.transactions[i]
              IN  /\ t.date = e.date.s
                  /\ t.description = e.description.s
                  /\ e.debit.t = "null" => t.debit = Dbl(0)
                  /\ e.credit.t = "null" => t.credit = Dbl(0)
                  /\ e.debit.t = "number" => t.debit = Dbl(e.debit.n)
                  /\ e.credit.t = "number" => t.credit = Dbl(e.credit.n)
                  /\ t.category = Null
                  /\ DOMAIN t = {"date", "description", "debit", "credit", "category"}

C9_Witness ==
    /\ jpc = "parsed"
    /\ ~jResult.null
    /\ Len(jResult.transactions) = 2
    /\ jInput.items[1].debit = JNull /\ jInput.items[1].credit = JNum(500000)
    /\ jInput.items[2].debit = JNum(1250) /\ jInput.items[2].credit = JNull
    /\ jResult.transactions[2].debit = Dbl(1250)

(***************************************************************************)
(* SpecCba: the text parser's entry points applied to generated inputs     *)
(***************************************************************************)
S_PeriodSameYear == <<"1", " ", "M", "a", "y", " ", "2", "0", "2", "5", " ", "-", " ", "3", "1", " ", "O", "c", "t", " ", "2", "0", "2", "5">>

S_PeriodTwoYears == <<"1", " ", "D", "e", "c", " ", "2", "0", "2", "4", " ", "-", " ", "3", "1", " ", "J", "a", "n", " ", "2", "0", "2", "5">>

S_PeriodThreeYears == <<"1", " ", "J", "u", "l", " ", "2", "0", "2", "3", " ", "-", " ", "3", "0", " ", "J", "u", "n", " ", "2", "0", "2", "5">>

S_DescSalary == <<"S", "a", "l", "a", "r", "y", " ", "A", "C", "M", "E", " ", "C", "O", "R", "P", "O", "R", "A", "T", "I", "O", "N">>

S_DescPay == <<"P", "a", "y">>

\* Statement periods with the years they carry.
Periods ==
    {[text |-> S_PeriodSameYear, start_year |-> 2025, end_year |-> 2025],
     [text |-> S_PeriodTwoYears, start_year |-> 2024, end_year |-> 2025]}

\* Amount texts with their value in cents.
AmountTexts ==
    {[text |-> <<"5", ",", "0", "0", "0", ".", "0", "0">>, cents |-> 500000],
     [text |-> <<"1", "2", ".", "5", "0">>, cents |-> 1250],
     [text |-> <<"0", ".", "0", "5">>, cents |-> 5]}

\* "Statement Period: <period>\n<day> <Mon> <desc> $<amount> $<balance> CR\n"
CreditLineText(period, day, month, desc, amount, balance) ==
    L_StatementPeriod \o <<":", " ">> \o period \o <<"\n">>
    \o IntToStr(day) \o <<" ">> \o Months[month] \o <<" ">> \o desc
    \o <<" ", "$">> \o amount \o <<" ", "$">> \o balance \o <<" ", "C", "R", "\n">>

\* Statements with one credit-column line, each with the parts it was built from.
CreditLineInputs ==
    {[kind |-> "credit_line",
      text |-> CreditLineText(p.text, d, m, desc, a.text, b.text),
      start_year |-> p.start_year, end_year |-> p.end_year,
      day |-> d, month |-> m, desc |-> desc, cents |-> a.cents,
      period |-> p.text, lines |-> <<>>, without |-> <<>>] :
        p \in Periods, d \in {1, 30, 31}, m \in {1, 5, 6, 7, 12},
        desc \in {S_DescSalary, S_DescPay}, a \in AmountTexts,
        b \in {x \in AmountTexts : x.cents # 1250}}

\* The spellings of a month abbreviation: as in `months' and in lower case.
MonthSpellings(m) == {Months[m], [i \in 1..Len(Months[m]) |-> tolower(Months[m][i])]}

\* Arguments of parse_cba_date: "<day> <Mon>" and a statement period.
DateInputs ==
    UNION {{[kind |-> "date",
             text |-> IntToStr(d) \o <<" ">> \o mon,
             start_year |-> p.start_year, end_year |-> p.end_year,
             day |-> d, month |-> m, desc |-> <<>>, cents |-> 0,
             period |-> p.text, lines |-> <<>>, without |-> <<>>] : mon \in MonthSpellings(m)} :
        p \in Periods \cup {[text |-> S_PeriodThreeYears, start_year |-> 2023,
                             end_year |-> 2025]},
        d \in {1, 9, 31}, m \in 1..12}

L_Hello == <<"h", "e", "l", "l", "o">>

L_Blank == <<" ", " ", "\t">>

L_CbaHeader == <<"A", "c", "c", "o", "u", "n", "t", " ", "N", "u", "m", "b", "e", "r", ":", " ", "0", "6", " ", "4", "1", "4", "4">>

L_AnzHeader == <<"A", "C", "C", "O", "U", "N", "T", " ", "N", "U", "M", "B", "E", "R", ":", " ", "1", "2", " ", "3", "4", "-", "5">>

L_DateOnly == <<"3", "0", " ", "M", "a", "y">>

L_AnzNoAmount == <<"0", "7", "/", "0", "7", "/", "2", "0", "2", "5", " ", "0", "7", "/", "0", "7", "/", "2", "0", "2", "5", " ", "8", "4", "1", "0", " ", "P", "A", "Y">>

L_AnzDollarFirst == <<"1", "/", "1", "/", "2", "0", "0", "0", "$", " ", "A", " ", "B">>

L_CbaDebit == <<"3", "0", " ", "M", "a", "y", " ", "P", "a", "y", " ", "1", "2", ".", "5", "0", " ", "$", "5", ".", "0", "0", " ", "C", "R">>

L_AnzDebit == <<"0", "7", "/", "0", "7", "/", "2", "0", "2", "5", " ", "0", "2", "/", "0", "7", "/", "2", "0", "2", "5", " ", "8", "4", "1", "0", " ", "S", "P", "O", "T", "I", "F", "Y", " ", "S", "Y", "D", "N", "E", "Y", " ", "$", "1", "9", ".", "9", "9", " ", "$", "2", ",", "1", "4", "7", ".", "9", "1">>

L_AnzZero == <<"0", "7", "/", "0", "7", "/", "2", "0", "2", "5", " ", "0", "7", "/", "0", "7", "/", "2", "0", "2", "5", " ", "8", "4", "1", "0", " ", "P", "A", "Y", " ", "$", "0", ".", "0", "0", " ", "$", "2", ",", "1", "4", "7", ".", "9", "1">>

L_CbaZero == <<"3", " ", "M", "a", "y", " ", "P", "a", "y", " ", "0", ".", "0", "0", " ", "$", "2", ".", "0", "0", " ", "C", "R">>

\* Lines of document text; cba and anz tell whether the line is a transaction
\* line of that institution's statements.
LinePool ==
    {[text |-> L_Hello, cba |-> FALSE, anz |-> FALSE],
     [text |-> L_Blank, cba |-> FALSE, anz |-> FALSE],
     [text |-> L_CbaHeader, cba |-> FALSE, anz |-> FALSE],
     [text |-> L_AnzHeader, cba |-> FALSE, anz |-> FALSE],
     [text |-> L_DateOnly, cba |-> FALSE, anz |-> FALSE],
     [text |-> L_AnzNoAmount, cba |-> FALSE, anz |-> FALSE],
     [text |-> L_AnzDollarFirst, cba |-> FALSE, anz |-> FALSE],
     [text |-> L_CbaDebit, cba |-> TRUE, anz |-> FALSE],
     [text |-> L_AnzDebit, cba |-> FALSE, anz |-> TRUE],
     [text |-> L_AnzZero, cba |-> FALSE, anz |-> TRUE],
     [text |-> L_CbaZero, cba |-> FALSE, anz |-> FALSE]}

\* Largest number of lines in a generated document text.
MaxLines == 2

RECURSIVE JoinLines(_, _)
\* The texts of ls[i..], each closed by a newline.
JoinLines(ls, i) ==
    IF i > Len(ls) THEN <<>> ELSE ls[i].text \o <<"\n">> \o JoinLines(ls, i + 1)

\* Document texts handed to a text parser whole: absent, or up to MaxLines
\* lines of the pool (none gives the empty string).
RawInputs ==
    {[kind |-> "raw", text |-> Null, start_year |-> 0, end_year |-> 0,
      day |-> 0, month |-> 0, desc |-> <<>>, cents |-> 0, period |-> <<>>,
      lines |-> <<>>, without |-> <<>>]}
    \cup {[kind |-> "raw", text |-> JoinLines(ls, 1), start_year |-> 0, end_year |-> 0,
           day |-> 0, month |-> 0, desc |-> <<>>, cents |-> 0, period |-> <<>>,
           lines |-> ls, without |-> <<>>] : ls \in SeqsUpTo(LinePool, MaxLines)}

L_CbaStart == <<"1", "7", " ", "M", "a", "y", " ", "T", "r", "a", "n", "s", "f", "e", "r", " ", "T", "o", " ", "S", "a", "v", "i", "n", "g", "s">>

L_CbaContinuation == <<"N", "e", "t", "B", "a", "n", "k", " ", "6", ",", "6", "7", "7", ".", "0", "0", " ", "$", "1", "0", ",", "8", "1", "9", ".", "7", "9", " ", "C", "R">>

L_CbaNumbered == <<"2", " ", "I", "t", "e", "m", "s", " ", "6", ",", "6", "7", "7", ".", "0", "0", " ", "$", "1", "0", ",", "8", "1", "9", ".", "7", "9", " ", "C", "R">>

L_CbaDay32 == <<"3", "2", " ", "M", "a", "y", " ", "F", "e", "e", " ", "1", ".", "0", "0", " ", "$", "2", ".", "0", "0", " ", "C", "R">>

L_CbaDay0 == <<"0", " ", "M", "a", "y", " ", "F", "e", "e", " ", "1", ".", "0", "0", " ", "$", "2", ".", "0", "0", " ", "C", "R">>

L_CbaNoMonth == <<"3", " ", "M", "a", "y", "o", " ", "F", "e", "e", " ", "1", ".", "0", "0", " ", "$", "2", ".", "0", "0", " ", "C", "R">>

L_AnzCredit == <<"0", "8", "/", "0", "7", "/", "2", "0", "2", "5", " ", "0", "8", "/", "0", "7", "/", "2", "0", "2", "5", " ", "8", "4", "1", "0", " ", "S", "A", "L", "A", "R", "Y", " ", "$", "1", "0", "0", ".", "0", "0", "C", "R", " ", "$", "2", ",", "2", "4", "7", ".", "9", "1">>

L_AnzDay32 == <<"3", "2", "/", "0", "7", "/", "2", "0", "2", "5", " ", "0", "7", "/", "0", "7", "/", "2", "0", "2", "5", " ", "8", "4", "1", "0", " ", "F", "E", "E", " ", "$", "1", ".", "0", "0", " ", "$", "2", ",", "1", "4", "6", ".", "9", "1">>

L_AnzMonth13 == <<"0", "7", "/", "1", "3", "/", "2", "0", "2", "5", " ", "0", "7", "/", "0", "7", "/", "2", "0", "2", "5", " ", "8", "4", "1", "0", " ", "F", "E", "E", " ", "$", "1", ".", "0", "0", " ", "$", "2", ",", "1", "4", "6", ".", "9", "1">>

L_AnzYear1899 == <<"0", "7", "/", "0", "7", "/", "1", "8", "9", "9", " ", "0", "7", "/", "0", "7", "/", "2", "0", "2", "5", " ", "8", "4", "1", "0", " ", "F", "E", "E", " ", "$", "1", ".", "0", "0", " ", "$", "2", ",", "1", "4", "6", ".", "9", "1">>

\* Lines of a CBA statement: a whole transaction, the first line of a
\* transaction that spans two lines, and two spellings of its second line.
CbaGoodLines ==
    {[text |-> L_CbaDebit, cba |-> TRUE, anz |-> FALSE],
     [text |-> L_CbaStart, cba |-> FALSE, anz |-> FALSE],
     [text |-> L_CbaContinuation, cba |-> FALSE, anz |-> FALSE],
     [text |-> L_CbaNumbered, cba |-> FALSE, anz |-> FALSE]}

\* CBA transaction lines whose date fails parse_cba_date's checks.
CbaBadDateLines ==
    {[text |-> L_CbaDay32, cba |-> FALSE, anz |-> FALSE],
     [text |-> L_CbaDay0, cba |-> FALSE, anz |-> FALSE],
     [text |-> L_CbaNoMonth, cba |-> FALSE, anz |-> FALSE]}

AnzGoodLines ==
    {[text |-> L_AnzDebit, cba |-> FALSE, anz |-> TRUE],
     [text |-> L_AnzCredit, cba |-> FALSE, anz |-> TRUE],
     [text |-> L_Hello, cba |-> FALSE, anz |-> FALSE]}

\* ANZ transaction lines whose date fails parse_anz_date's checks.
AnzBadDateLines ==
    {[text |-> L_AnzDay32, cba |-> FALSE, anz |-> FALSE],
     [text |-> L_AnzMonth13, cba |-> FALSE, anz |-> FALSE],
     [text |-> L_AnzYear1899, cba |-> FALSE, anz |-> FALSE]}

\* ls with x put after its first i elements.
InsertAt(ls, i, x) == SubSeq(ls, 1, i) \o <<x>> \o SubSeq(ls, i + 1, Len(ls))

\* Document texts with one line whose date is out of range, each with the
\* same text less that line.
BadDateTexts(kind, good, bad) ==
    UNION {{[kind |-> kind, text |-> JoinLines(InsertAt(ls, i, b), 1),
             start_year |-> 0, end_year |-> 0, day |-> 0, month |-> 0,
             desc |-> <<>>, cents |-> 0, period |-> <<>>,
             lines |-> InsertAt(ls, i, b), without |-> JoinLines(ls, 1)] :
                i \in 0..Len(ls), b \in bad} : ls \in SeqsUpTo(good, MaxLines)}

BadDateInputs ==
    BadDateTexts("bad_date_cba", CbaGoodLines, CbaBadDateLines)
    \cup BadDateTexts("bad_date_anz", AnzGoodLines, AnzBadDateLines)

S_DescCrust == <<"P", "a", "y", " ", "C", "R", "U", "S", "T", " ", "P", "I", "Z", "Z", "A">>

S_DescCreditCard == <<"C", "R", "E", "D", "I", "T", " ", "C", "A", "R", "D", " ", "F", "E", "E">>

\* "<day> <Mon> <desc> <amount> $<balance> CR\n"
DebitLineText(day, month, desc, amount, balance) ==
    IntToStr(day) \o <<" ">> \o Months[month] \o <<" ">> \o desc
    \o <<" ">> \o amount \o <<" ", "$">> \o balance \o <<" ", "C", "R", "\n">>

\* Statements with one debit-column line and no statement period, each with
\* the parts it was built from.
DebitLineInputs ==
    {[kind |-> "debit_line",
      text |-> DebitLineText(d, m, desc, a.text, b.text),
      start_year |-> 2025, end_year |-> 2025,
      day |-> d, month |-> m, desc |-> desc, cents |-> a.cents,
      period |-> <<>>, lines |-> <<>>, without |-> <<>>] :
        d \in {3, 30}, m \in {5, 7},
        desc \in {S_DescPay, S_DescCrust, S_DescCreditCard}, a \in AmountTexts,
        b \in {x \in AmountTexts : x.cents # 1250}}

S_AnzLead == <<"0", "7", "/", "0", "7", "/", "2", "0", "2", "5", " ", "0", "7", "/", "0", "7", "/", "2", "0", "2", "5", " ", "8", "4", "1", "0", " ">>

S_AnzBalance == <<" ", "$", "2", ",", "1", "4", "7", ".", "9", "1">>

S_DescCreditInterest == <<"C", "R", "E", "D", "I", "T", " ", "I", "N", "T", "E", "R", "E", "S", "T">>

\* "07/07/2025 07/07/2025 8410 <desc> $<amount><suffix> $2,147.91\n"
AnzLineText(desc, amount, suffix) ==
    S_AnzLead \o desc \o <<" ", "$">> \o amount \o suffix \o S_AnzBalance \o <<"\n">>

\* ANZ statements with one transaction line, each with the parts it was
\* built from: the amount carries the suffix CR (kind "anz_credit"), or none,
\* or a CR apart from the numeral (kind "anz_debit").
AnzLineInputs ==
    UNION {{[kind |-> k.kind,
             text |-> AnzLineText(desc, a.text, suffix),
             start_year |-> 2025, end_year |-> 2025,
             day |-> 7, month |-> 7, desc |-> desc, cents |-> a.cents,
             period |-> <<>>, lines |-> <<>>, without |-> <<>>] :
                suffix \in k.suffixes} :
        k \in {[kind |-> "anz_credit", suffixes |-> {<<"C", "R">>}],
               [kind |-> "anz_debit", suffixes |-> {<<>>, <<" ", "C", "R">>}]},
        desc \in {S_DescPay, S_DescSalary, S_DescCreditInterest}, a \in AmountTexts}

S_PeriodWords == <<"M", "a", "y", " ", "t", "o", " ", "O", "c", "t", "o", "b", "e", "r">>

S_PeriodYearFirst == <<"2", "0", "2", "4", " ", "t", "o", " ", "2", "0", "2", "5">>

S_PeriodStart2024 == <<"1", " ", "M", "a", "y", " ", "2", "0", "2", "4">>

S_PeriodStart2026NoEnd == <<"1", " ", "J", "u", "l", " ", "2", "0", "2", "6", " ", "-", " ", "3", "1", " ", "D", "e", "c">>

S_PeriodStart2023To == <<"1", " ", "D", "e", "c", " ", "2", "0", "2", "3", " ", "t", "o", " ", "3", "1", " ", "J", "a", "n", " ", "2", "0", "2", "4">>

\* Statement periods whose years the scan cannot read, and periods of which
\* it reads the start year only.
UnreadablePeriods == {S_PeriodWords, S_PeriodYearFirst}

StartOnlyPeriods == {S_PeriodStart2024, S_PeriodStart2026NoEnd, S_PeriodStart2023To}

\* Statements with one debit-column line and no statement period ("no_years",
\* period Null), a period without readable years ("no_years"), or a period
\* with a readable start year only ("start_year_only").
PeriodLineInputs ==
    {[kind |-> k.kind,
      text |-> (IF k.period = Null THEN <<>>
                ELSE L_StatementPeriod \o <<":", " ">> \o k.period \o <<"\n">>)
               \o DebitLineText(d, m, S_DescPay, a.text, a.text),
      start_year |-> 0, end_year |-> 0,
      day |-> d, month |-> m, desc |-> S_DescPay, cents |-> a.cents,
      period |-> k.period, lines |-> <<>>, without |-> <<>>] :
        k \in {[kind |-> "no_years", period |-> q] : q \in {Null} \cup UnreadablePeriods}
              \cup {[kind |-> "start_year_only", period |-> q] : q \in StartOnlyPeriods},
        d \in {3, 31}, m \in {1, 6, 7, 12},
        a \in {x \in AmountTexts : x.cents = 1250}}

InitCba ==
    /\ IdleAi /\ IdleJson /\ IdleCat /\ IdleRun /\ IdleApi
    /\ tpc = "input"
    /\ tInput \in CreditLineInputs \cup DateInputs \cup RawInputs \cup BadDateInputs
                 \cup DebitLineInputs \cup AnzLineInputs
                 \cup PeriodLineInputs
    /\ tResult = NoResult

\* A caller invokes parse_cba_statement on the text.
ParseText ==
    /\ tpc = "input"
    /\ tInput.kind \in {"credit_line", "raw", "bad_date_cba", "debit_line", "no_years",
                       "start_year_only"}
    /\ tpc' = "parsed"
    /\ tResult' = parse_cba_statement(tInput.text)
    /\ UNCHANGED <<tInput, aiVars, jsonVars, apiVars, catVars, runVars>>

\* process_cba_transaction_line's call of parse_cba_date (cba_parser.c:336).
ParseDate ==
    /\ tpc = "input"
    /\ tInput.kind = "date"
    /\ tpc' = "parsed"
    /\ tResult' = parse_cba_date(tInput.text, tInput.period)
    /\ UNCHANGED <<tInput, aiVars, jsonVars, apiVars, catVars, runVars>>

\* A caller invokes parse_anz_statement on the text.
ParseAnzText ==
    /\ tpc = "input"
    /\ tInput.kind \in {"credit_line", "raw", "bad_date_anz", "anz_credit", "anz_debit"}
    /\ tpc' = "parsed_anz"
    /\ tResult' = parse_anz_statement(tInput.text)
    /\ UNCHANGED <<tInput, aiVars, jsonVars, apiVars, catVars, runVars>>

NextCba == ParseText \/ ParseDate \/ ParseAnzText

SpecCba == InitCba /\ [][NextCba]_vars

(***************************************************************************)
(* categoriser.c                                                           *)
(***************************************************************************)
\* Largest number of rules in a modelled Config.
MaxRules == 2

Cat_Uncategorised == <<"U", "n", "c", "a", "t", "e", "g", "o", "r", "i", "s", "e", "d">>

Cat_Other == <<"O", "t", "h", "e", "r">>

Cat_Income == <<"I", "n", "c", "o", "m", "e">>

Cat_Housing == <<"H", "o", "u", "s", "i", "n", "g">>

Cat_Misc == <<"M", "i", "s", "c">>

Cat_Broken == <<"B", "r", "o", "k", "e", "n">>

Cat_Dead == <<"D", "e", "a", "d">>

Cat_Preset == <<"P", "r", "e", "s", "e", "t">>

\* safe_strdup (utils.c:89-101), allocation succeeding: NULL for NULL.
safe_strdup(str) == str

\* pcre2_match_8 as called at categoriser.c:34-42, for patterns that are
\* literal text: "match" (a result >= 0) when the subject contains the
\* text, "nomatch" (PCRE2_ERROR_NOMATCH) when not, and "error" (any other
\* negative result) for a compiled pattern the engine fails on.
pcre2_match(rule, subject) ==
    IF rule.faulty THEN "error"
    ELSE IF strstr(subject, rule.pattern) # 0 THEN "match"
    ELSE "nomatch"

\* Variant of RuleLoop: the loop goes on after a match, the last match stays.
RECURSIVE RuleLoopLastMatch(_, _, _, _)
RuleLoopLastMatch(transaction, config, i, evals) ==
    IF i > Len(config.rules)
    THEN [t |-> IF transaction.category = Null
                THEN [transaction EXCEPT !.category = safe_strdup(config.default_category)]
                ELSE transaction,
          evals |-> evals]
    ELSE IF ~config.rules[i].compiled
    THEN RuleLoopLastMatch(transaction, config, i + 1, evals)
    ELSE IF pcre2_match(config.rules[i], transaction.description) = "match"
    THEN RuleLoopLastMatch([transaction EXCEPT !.category = safe_strdup(config.rules[i].category)],
                           config, i + 1, Append(evals, i))
    ELSE RuleLoopLastMatch(transaction, config, i + 1, Append(evals, i))

\* The for loop of categorise_transaction from rule i on and the default
\* after it (categoriser.c:20-69); `evals' lists the rules matched against.
RECURSIVE RuleLoop(_, _, _, _)
RuleLoop(transaction, config, i, evals) ==
    IF i > Len(config.rules)
    THEN [t |-> [transaction EXCEPT !.category = safe_strdup(config.default_category)],
          evals |-> evals]
    ELSE IF ~config.rules[i].compiled
    THEN RuleLoop(transaction, config, i + 1, evals)
    ELSE IF pcre2_match(config.rules[i], transaction.description) = "match"
    THEN [t |-> [transaction EXCEPT !.category = safe_strdup(config.rules[i].category)],
          evals |-> Append(evals, i)]
    ELSE RuleLoop(transaction, config, i + 1, Append(evals, i))

\* Variant of categorise_transaction: an existing category is not kept.
categorise_transaction_overwriting(transaction, config) ==
    IF config.null THEN [t |-> transaction, evals |-> <<>>]
    ELSE IF transaction.description = Null
    THEN [t |-> [transaction EXCEPT !.category = safe_strdup(config.default_category)],
          evals |-> <<>>]
    ELSE RuleLoop(transaction, config, 1, <<>>)

\* Variant of categorise_transaction: an absent description is given to the rules.
categorise_transaction_no_description_test(transaction, config) ==
    IF config.null THEN [t |-> transaction, evals |-> <<>>]
    ELSE IF transaction.category # Null THEN [t |-> transaction, evals |-> <<>>]
    ELSE RuleLoop([transaction EXCEPT !.description =
                       IF @ = Null THEN <<>> ELSE @], config, 1, <<>>)

\* categorise_transaction (categoriser.c:7-70) on a non-NULL transaction:
\* the transaction afterwards and the rules matched against.
categorise_transaction(transaction, config) ==
    IF config.null THEN [t |-> transaction, evals |-> <<>>]
    ELSE IF transaction.category # Null THEN [t |-> transaction, evals |-> <<>>]
    ELSE IF transaction.description = Null
    THEN [t |-> [transaction EXCEPT !.category = safe_strdup(config.default_category)],
          evals |-> <<>>]
    ELSE RuleLoop(transaction, config, 1, <<>>)

\* The for loop of categorise_all_transactions (categoriser.c:78-89) from
\* element i on.
RECURSIVE CategoriseFrom(_, _, _, _)
CategoriseFrom(transactions, config, i, log) ==
    IF i > Len(transactions) THEN [txs |-> transactions, log |-> log]
    ELSE Bind(categorise_transaction(transactions[i], config), LAMBDA r :
            CategoriseFrom([transactions EXCEPT ![i] = r.t], config, i + 1,
                           Append(log, [i |-> i, before |-> transactions[i],
                                        evals |-> r.evals])))

\* categorise_all_transactions (categoriser.c:72-93)
categorise_all_transactions(transactions, count, config) ==
    IF count = 0 \/ config.null THEN [txs |-> transactions, log |-> <<>>]
    ELSE CategoriseFrom(transactions, config, 1, <<>>)

(***************************************************************************)
(* SpecCat: the categoriser applied to batches of transactions             *)
(***************************************************************************)
\* The rules Configs are built from: patterns that are literal text, one
\* the engine fails on, and one without a compiled pattern.
RuleKinds ==
    {[pattern |-> S_Salary, category |-> Cat_Income, compiled |-> TRUE, faulty |-> FALSE],
     [pattern |-> S_Rent, category |-> Cat_Housing, compiled |-> TRUE, faulty |-> FALSE],
     [pattern |-> <<>>, category |-> Cat_Misc, compiled |-> TRUE, faulty |-> FALSE],
     [pattern |-> S_Salary, category |-> Cat_Broken, compiled |-> TRUE, faulty |-> TRUE],
     [pattern |-> S_Salary, category |-> Cat_Dead, compiled |-> FALSE, faulty |-> FALSE]}

CatConfigs ==
    [null : {FALSE}, default_category : {Cat_Uncategorised, Cat_Other},
     rules : SeqsUpTo(RuleKinds, MaxRules)]

\* A Transaction as the parsers and the AI path build it.
SampleTx(description, category) ==
    [date |-> S_Date0630, description |-> description, debit |-> Dbl(0),
     credit |-> Dbl(500000), category |-> category]

Batches ==
    {<<>>,
     <<SampleTx(S_DescSalary, Null)>>,
     <<SampleTx(Null, Null)>>,
     <<SampleTx(S_Rent, Null), SampleTx(S_DescSalary, Null)>>,
     <<SampleTx(S_DescSalary, Cat_Preset), SampleTx(S_DescPay, Null)>>,
     <<SampleTx(Null, Cat_Preset), SampleTx(<<>>, Null), SampleTx(S_DescSalary, Null)>>}

InitCat ==
    /\ IdleAi /\ IdleJson /\ IdleCba /\ IdleRun /\ IdleApi
    /\ kpc = 0
    /\ kConfig \in CatConfigs
    /\ kTx \in Batches
    /\ kLog = <<>>

\* A caller invokes categorise_transaction on one element.
CategoriseOne ==
    /\ kpc < 2
    /\ \E i \in 1..Len(kTx) :
          /\ kTx' = [kTx EXCEPT ![i] = categorise_transaction(kTx[i], kConfig).t]
          /\ kLog' = <<[i |-> i, before |-> kTx[i],
                        evals |-> categorise_transaction(kTx[i], kConfig).evals]>>
    /\ kpc' = kpc + 1
    /\ UNCHANGED <<kConfig, aiVars, jsonVars, apiVars, cbaVars, runVars>>

\* A caller invokes categorise_all_transactions on the array (main.c:251).
CategoriseAll ==
    /\ kpc < 2
    /\ kTx' = categorise_all_transactions(kTx, Len(kTx), kConfig).txs
    /\ kLog' = categorise_all_transactions(kTx, Len(kTx), kConfig).log
    /\ kpc' = kpc + 1
    /\ UNCHANGED <<kConfig, aiVars, jsonVars, apiVars, cbaVars, runVars>>

NextCat == CategoriseOne \/ CategoriseAll

SpecCat == InitCat /\ [][NextCat]_vars

(***************************************************************************)
(* main.c, parser_registry.c, paperless_api.c: one run of the program      *)
(***************************************************************************)
\* Largest number of documents Paperless holds.
MaxDocs == 2

S_133 == <<"1", "3", "3">>

S_CBA == <<"C", "B", "A">>

S_CommonwealthBank == <<"C", "o", "m", "m", "o", "n", "w", "e", "a", "l", "t", "h", " ", "B", "a", "n", "k">>

S_11 == <<"1", "1">>

S_ANZ == <<"A", "N", "Z">>

S_ANZBank == <<"A", "N", "Z", " ", "B", "a", "n", "k">>

S_Unknown == <<"U", "n", "k", "n", "o", "w", "n">>

S_cba == <<"c", "b", "a">>

S_999 == <<"9", "9", "9">>

\* parser_registry (parser_registry.c:8-20), without the sentinel
parser_registry ==
    <<[correspondent_name |-> S_133, parser |-> "parse_cba_statement"],
      [correspondent_name |-> S_CBA, parser |-> "parse_cba_statement"],
      [correspondent_name |-> S_CommonwealthBank, parser |-> "parse_cba_statement"],
      [correspondent_name |-> S_11, parser |-> "parse_anz_statement"],
      [correspondent_name |-> S_ANZ, parser |-> "parse_anz_statement"],
      [correspondent_name |-> S_ANZBank, parser |-> "parse_anz_statement"]>>

\* get_parser_for_correspondent (parser_registry.c:22-39): the name of the
\* parser function, "NULL" for none.
get_parser_for_correspondent(correspondent) ==
    IF correspondent = Null THEN "NULL"
    ELSE Bind({i \in 1..Len(parser_registry) :
                  strcasecmp_eq(correspondent, parser_registry[i].correspondent_name)},
              LAMBDA hits : IF hits = {} THEN "NULL" ELSE parser_registry[Least(hits)].parser)

\* is_cba_correspondent (main.c:18-32)
is_cba_correspondent(correspondent) ==
    /\ correspondent # Null
    /\ correspondent \in {S_133, S_CBA, S_CommonwealthBank}

\* The institution main records with a transaction (main.c:280-286).
InstitutionOf(correspondent) ==
    IF correspondent = S_133 THEN S_CommonwealthBank
    ELSE IF correspondent = S_11 THEN S_ANZ
    ELSE S_Unknown

\* Document texts: a CBA statement, an ANZ statement, the empty text.
T_Anz == L_AnzHeader \o <<"\n">> \o L_AnzDebit \o <<"\n">> \o L_AnzCredit \o <<"\n">>

DocTexts == {SampleStatement, T_Anz, <<>>}

\* What each text parser returns for each text, allocation succeeding.
TextResult ==
    [parser \in {"parse_cba_statement", "parse_anz_statement"} |->
        [text \in DocTexts |->
            IF parser = "parse_cba_statement" THEN parse_cba_statement(text)
            ELSE parse_anz_statement(text)]]

\* The returns of a text parser on non-NULL content: its result, or NULL when
\* create_parse_result fails (cba_parser.c:585-586, anz_parser.c:265-266).
TextOutcomes(parser, text) == {TextResult[parser][text], NoResult}

\* The ways a text parser can run after the steps in `before'.
TextRuns(before, parser, text) ==
    {[steps |-> Append(before, "text"), result |-> r] : r \in TextOutcomes(parser, text)}

\* What parse_cba_with_ai can return: NULL, or the ParseResult of a validated
\* response with one transaction or with none.
AiResults ==
    {NoResult,
     parse_cba_json_to_result(GoodBody(<<CHOOSE g \in GoodEntries : g.debit = JNull>>)),
     parse_cba_json_to_result(GoodBody(<<>>))}

\* parse_cba_statement_with_id (cba_parser.c:664-704) on non-NULL content:
\* the steps taken ("download": download_pdf_from_paperless, "ai":
\* parse_cba_with_ai, "text": the text parser) and the value returned.
parse_cba_statement_with_id(text, c) ==
    IF ~should_use_ai_parsing(c) THEN TextRuns(<<>>, "parse_cba_statement", text)
    ELSE TextRuns(<<"download">>, "parse_cba_statement", text)
         \cup UNION {IF ai.null
                     THEN TextRuns(<<"download", "ai">>, "parse_cba_statement", text)
                     ELSE {[steps |-> <<"download", "ai">>, result |-> ai]} :
                     ai \in AiResults}

\* The parse main makes for a document with a parser (main.c:226-235).
ExtractionRuns(doc, parser, c) ==
    IF is_cba_correspondent(doc.correspondent)
    THEN parse_cba_statement_with_id(doc.content, c)
    ELSE TextRuns(<<>>, parser, doc.content)

\* The CBA configurations of a run: none, text extraction, AI extraction.
RunConfigs ==
    {c \in Configs :
        /\ c.entry = "with_id"
        /\ c.hasCbaConfig =>
              /\ c.method # "NULL" /\ c.provider = "anthropic"
              /\ c.providerConfig = "full" /\ c.apiKey}

\* The Config load_config returns here: the default category and one rule.
RunCatConfig ==
    [null |-> FALSE, default_category |-> Cat_Uncategorised,
     rules |-> <<[pattern |-> S_Salary, category |-> Cat_Income,
                  compiled |-> TRUE, faulty |-> FALSE]>>]

\* Tag ids: Accounts (paperless_api.c:216) and processed (paperless_api.c:324).
TagAccounts == 14

TagProcessed == 15

\* Documents Paperless may hold: correspondent, text and tags.
DocKinds ==
    {[correspondent |-> Null, content |-> SampleStatement, tags |-> {TagAccounts}],
     [correspondent |-> S_999, content |-> SampleStatement, tags |-> {TagAccounts}],
     [correspondent |-> S_133, content |-> SampleStatement, tags |-> {TagAccounts}],
     [correspondent |-> S_cba, content |-> SampleStatement,
      tags |-> {TagAccounts, TagProcessed}],
     [correspondent |-> S_11, content |-> T_Anz, tags |-> {TagAccounts}],
     [correspondent |-> S_ANZ, content |-> <<>>, tags |-> {TagAccounts}],
     [correspondent |-> S_11, content |-> T_Anz, tags |-> {TagProcessed}]}

\* The stores: up to MaxDocs documents in order of creation, the id of each
\* its position.
Stores ==
    {[i \in 1..Len(ds) |->
        [id |-> i, correspondent |-> ds[i].correspondent, content |-> ds[i].content,
         tags |-> ds[i].tags]] : ds \in SeqsUpTo(DocKinds, MaxDocs)}

\* An array pointer: NULL, or an array with its elements.
NullArray == [null |-> TRUE, items |-> <<>>]

\* An entry of runLog: what happened, the document's id, a count.
Event(e, id, n) == [e |-> e, id |-> id, n |-> n]

InitRun ==
    /\ IdleAi /\ IdleJson /\ IdleCba /\ IdleCat /\ IdleApi
    /\ runpc = "query"
    /\ reprocess \in BOOLEAN
    /\ store \in Stores
    /\ runCfg \in RunConfigs
    /\ documents = <<>>
    /\ doc_i = 0
    /\ parse_result = NoResult
    /\ processed_documents = 0
    /\ skipped_documents = 0
    /\ total_transaction_count = 0
    /\ all_transactions = NullArray
    /\ all_metadata = NullArray
    /\ runLog = <<>>

\* The filter of the URL query_documents builds (paperless_api.c:215-227).
QueryFilter(flag) ==
    IF flag
    THEN [tags__id__all |-> {TagAccounts}, tags__id__none |-> {}]
    ELSE [tags__id__all |-> {TagAccounts}, tags__id__none |-> {}]

\* The documents Paperless answers a filter with, in order of creation.
Answer(filter) ==
    SelectSeq(store, LAMBDA d : /\ filter.tags__id__all \subseteq d.tags
                                /\ filter.tags__id__none \cap d.tags = {})

\* query_documents (paperless_api.c:197-280) and main's test of its result
\* (main.c:184-190): the page is fetched or the request fails.
Query ==
    /\ runpc = "query"
    /\ \E fetched \in BOOLEAN :
          /\ documents' = IF fetched
                          THEN [i \in 1..Len(Answer(QueryFilter(reprocess))) |->
                                   [id |-> Answer(QueryFilter(reprocess))[i].id,
                                    correspondent |->
                                        Answer(QueryFilter(reprocess))[i].correspondent,
                                    content |-> Answer(QueryFilter(reprocess))[i].content]]
                          ELSE <<>>
          /\ runpc' = IF documents' = <<>> THEN "exited" ELSE "loop"
    /\ runLog' = Append(runLog, Event("query", 0, Len(documents')))
    /\ UNCHANGED <<reprocess, store, runCfg, doc_i, parse_result, processed_documents,
                   skipped_documents, total_transaction_count, all_transactions,
                   all_metadata, aiVars, jsonVars, apiVars, cbaVars, catVars>>

\* The events of one document's visit: the visit, the steps of its
\* extraction, and how the visit ended.
VisitEvents(doc, steps, end, n) ==
    <<Event("visit", doc.id, 0)>> \o [k \in 1..Len(steps) |-> Event(steps[k], doc.id, 0)]
    \o <<Event(end, doc.id, n)>>

\* Variant of SkipDocument that does not count the document.
SkipDocumentUncounted(doc, steps, pr) ==
    /\ doc_i' = doc_i + 1
    /\ runpc' = IF doc_i + 1 < Len(documents) THEN "loop" ELSE "summary"
    /\ parse_result' = pr
    /\ runLog' = runLog \o VisitEvents(doc, steps, "skipped", 0)
    /\ UNCHANGED <<processed_documents, skipped_documents, total_transaction_count,
                   all_transactions, all_metadata>>

\* Variant of SkipDocument that leaves the loop.
SkipDocumentStopping(doc, steps, pr) ==
    /\ skipped_documents' = skipped_documents + 1
    /\ doc_i' = doc_i + 1
    /\ runpc' = "summary"
    /\ parse_result' = pr
    /\ runLog' = runLog \o VisitEvents(doc, steps, "skipped", 0)
    /\ UNCHANGED <<processed_documents, total_transaction_count, all_transactions,
                   all_metadata>>

\* `skipped_documents++; continue;' (main.c:206-210, 213-219, 236-245)
SkipDocument(doc, steps, pr) ==
    /\ skipped_documents' = skipped_documents + 1
    /\ doc_i' = doc_i + 1
    /\ runpc' = IF doc_i + 1 < Len(documents) THEN "loop" ELSE "summary"
    /\ parse_result' = pr
    /\ runLog' = runLog \o VisitEvents(doc, steps, "skipped", 0)
    /\ UNCHANGED <<processed_documents, total_transaction_count, all_transactions,
                   all_metadata>>

\* realloc of an aggregate array (main.c:254-257).
Realloc(array, fails) ==
    IF fails THEN NullArray ELSE [null |-> FALSE, items |-> array.items]

\* The copies appended to the aggregate (main.c:267-290).
CopyOf(doc, pr, txs) ==
    [transactions |-> txs,
     metadata |-> [j \in 1..Len(txs) |->
                      [institution |-> InstitutionOf(doc.correspondent),
                       account_number |-> safe_strdup(pr.account_number),
                       document_id |-> doc.id]]]

\* Variant of AggregateDocument that puts a document's transactions in front
\* of the aggregate.
AggregateDocumentPrepending(doc, steps, pr, txFails, metaFails) ==
    \E txs \in {categorise_all_transactions(pr.transactions, Len(pr.transactions),
                                            RunCatConfig).txs} :
        /\ parse_result' = [pr EXCEPT !.transactions = txs]
        /\ IF txFails \/ metaFails
           THEN /\ all_transactions' = Realloc(all_transactions, txFails)
                /\ all_metadata' = Realloc(all_metadata, metaFails)
                /\ runpc' = "summary"
                /\ runLog' = runLog \o VisitEvents(doc, steps \o <<"categorise">>,
                                                   "alloc_failed", Len(txs))
                /\ UNCHANGED <<doc_i, processed_documents, skipped_documents,
                               total_transaction_count>>
           ELSE /\ all_transactions' =
                       [null |-> FALSE,
                        items |-> CopyOf(doc, pr, txs).transactions \o all_transactions.items]
                /\ all_metadata' =
                       [null |-> FALSE,
                        items |-> CopyOf(doc, pr, txs).metadata \o all_metadata.items]
                /\ total_transaction_count' = total_transaction_count + Len(txs)
                /\ processed_documents' = processed_documents + 1
                /\ doc_i' = doc_i + 1
                /\ runpc' = IF doc_i + 1 < Len(documents) THEN "loop" ELSE "summary"
                /\ runLog' = runLog \o VisitEvents(doc, steps \o <<"categorise">>,
                                                   "aggregated", Len(txs))
                /\ UNCHANGED skipped_documents

\* Categorisation and aggregation of a document with transactions
\* (main.c:251-297); txFails and metaFails say which realloc fails.
AggregateDocument(doc, steps, pr, txFails, metaFails) ==
    \E txs \in {categorise_all_transactions(pr.transactions, Len(pr.transactions),
                                            RunCatConfig).txs} :
        /\ parse_result' = [pr EXCEPT !.transactions = txs]
        /\ IF txFails \/ metaFails
           THEN /\ all_transactions' = Realloc(all_transactions, txFails)
                /\ all_metadata' = Realloc(all_metadata, metaFails)
                /\ runpc' = "summary"
                /\ runLog' = runLog \o VisitEvents(doc, steps \o <<"categorise">>,
                                                   "alloc_failed", Len(txs))
                /\ UNCHANGED <<doc_i, processed_documents, skipped_documents,
                               total_transaction_count>>
           ELSE /\ all_transactions' =
                       [null |-> FALSE,
                        items |-> all_transactions.items \o CopyOf(doc, pr, txs).transactions]
                /\ all_metadata' =
                       [null |-> FALSE,
                        items |-> all_metadata.items \o CopyOf(doc, pr, txs).metadata]
                /\ total_transaction_count' = total_transaction_count + Len(txs)
                /\ processed_documents' = processed_documents + 1
                /\ doc_i' = doc_i + 1
                /\ runpc' = IF doc_i + 1 < Len(documents) THEN "loop" ELSE "summary"
                /\ runLog' = runLog \o VisitEvents(doc, steps \o <<"categorise">>,
                                                   "aggregated", Len(txs))
                /\ UNCHANGED skipped_documents

\* One iteration of the document loop (main.c:199-298).
ProcessDocument ==
    /\ runpc = "loop"
    /\ doc_i < Len(documents)
    /\ \E doc \in {documents[doc_i + 1]} :
       \E parser \in {get_parser_for_correspondent(doc.correspondent)} :
          IF doc.correspondent = Null \/ parser = "NULL"
          THEN SkipDocument(doc, <<>>, NoResult)
          ELSE \E run \in ExtractionRuns(doc, parser, runCfg) :
                  IF run.result.null \/ run.result.transactions = <<>>
                  THEN SkipDocument(doc, run.steps, run.result)
                  ELSE \E txFails \in BOOLEAN, metaFails \in BOOLEAN :
                          AggregateDocument(doc, run.steps, run.result, txFails, metaFails)
    /\ UNCHANGED <<reprocess, store, runCfg, documents, aiVars, jsonVars, apiVars, cbaVars, catVars>>

\* The end of the loop and the report (main.c:300-318, 339-346):
\* create_xlsx_report returns 0 for a NULL transactions array
\* (xlsx_writer.c:84-87) and reads metadata only when it is not NULL
\* (xlsx_writer.c:194-208); the file may also not come to be written.
Report ==
    /\ runpc = "summary"
    /\ IF total_transaction_count = 0
       THEN /\ runpc' = "exited"
            /\ runLog' = Append(runLog, Event("summary", 0, total_transaction_count))
       ELSE \E written \in IF all_transactions.null THEN {FALSE} ELSE BOOLEAN :
               /\ runpc' = IF written THEN "tagging" ELSE "cleanup"
               /\ runLog' = runLog \o <<Event("summary", 0, total_transaction_count),
                                        Event(IF written THEN "report" ELSE "no_report",
                                              0, total_transaction_count)>>
    /\ UNCHANGED <<reprocess, store, runCfg, documents, doc_i, parse_result,
                   processed_documents, skipped_documents, total_transaction_count,
                   all_transactions, all_metadata, aiVars, jsonVars, apiVars, cbaVars, catVars>>

\* The tagging loop (main.c:330-337) with update_document_tags
\* (paperless_api.c:283-405): `ok' holds the documents whose requests
\* succeed, all of them or those before the first failure.
TagDocuments ==
    /\ runpc = "tagging"
    /\ \E ok \in {1..k : k \in 0..Len(documents)} :
          /\ store' = [k \in 1..Len(store) |->
                          IF \E i \in ok : documents[i].id = store[k].id
                          THEN [store[k] EXCEPT !.tags = @ \cup {TagProcessed}]
                          ELSE store[k]]
          /\ runLog' = runLog \o [i \in 1..Len(documents) |->
                                     Event(IF i \in ok THEN "tagged" ELSE "tag_failed",
                                           documents[i].id, 0)]
    /\ runpc' = "cleanup"
    /\ UNCHANGED <<reprocess, runCfg, documents, doc_i, parse_result,
                   processed_documents, skipped_documents, total_transaction_count,
                   all_transactions, all_metadata, aiVars, jsonVars, apiVars, cbaVars, catVars>>

\* The frees of the aggregate (main.c:348-360): with a NULL array the loop
\* reads through a null pointer, which may end the process or pass.
Cleanup ==
    /\ runpc = "cleanup"
    /\ runpc' \in IF all_transactions.null \/ all_metadata.null
                  THEN {"crashed", "exited"} ELSE {"exited"}
    /\ UNCHANGED <<reprocess, store, runCfg, documents, doc_i, parse_result,
                   processed_documents, skipped_documents, total_transaction_count,
                   all_transactions, all_metadata, runLog, aiVars, jsonVars, apiVars, cbaVars,
                   catVars>>

NextRun == Query \/ ProcessDocument \/ Report \/ TagDocuments \/ Cleanup

SpecRun == InitRun /\ [][NextRun]_vars

(***************************************************************************)
(* Properties of the AI path (checked under Spec)                          *)
(***************************************************************************)
RECURSIVE SumSeq(_, _)
SumSeq(q, n) == IF n = 0 THEN 0 ELSE q[n] + SumSeq(q, n - 1)

\* Total blocking delay so far, in seconds.
TotalDelay == SumSeq(sleeps, Len(sleeps))

Failed(i) == callLog[i] # "ok"

\* C1: ai_service_parse_pdf makes at most 4 provider calls per document; a
\* call after the first is made only when every earlier one failed, the loop
\* is left at the first successful call, and when all 4 calls fail the
\* function returns no ParseResult.
C1_AtMostFourAttempts ==
    /\ Len(callLog) <= 4
    /\ \A i \in 1..(Len(callLog) - 1) : Failed(i)
    /\ (callLog # <<>> /\ ~Failed(Len(callLog))) => pc \in {"parse", "done"}
    /\ (pc = "done" /\ Len(callLog) = 4 /\ \A i \in 1..4 : Failed(i)) => aiResult = NoResult

C1_Witness ==
    /\ pc = "done"
    /\ Len(callLog) = 4
    /\ \A i \in 1..4 : Failed(i)
    /\ requests = 4
    /\ aiResult = NoResult

\* C2: the k-th failed call (k = 1, 2, 3) is followed by a blocking delay of
\* 1, 2, 4 seconds; no delay follows a successful call or the 4th call.  A
\* success at call n after n-1 failures has cost 2^(n-1) - 1 seconds of
\* delay in total (0, 1, 3, 7), and exhaustion costs 7.
C2_BackoffSchedule ==
    LET fails == Cardinality({i \in 1..Len(callLog) : Failed(i)})
        n == Len(callLog)
    IN  /\ Len(sleeps) = IF fails < 3 THEN fails ELSE 3
        /\ \A k \in 1..Len(sleeps) : sleeps[k] = <<1, 2, 4>>[k]
        /\ (n > 0 /\ ~Failed(n)) => TotalDelay = <<0, 1, 3, 7>>[n]
        /\ fails = 4 => TotalDelay = 7

C2_Witness ==
    /\ pc = "done"
    /\ Len(callLog) = 3 /\ Failed(1) /\ Failed(2) /\ ~Failed(3)
    /\ sleeps = <<1, 2>>
    /\ TotalDelay = 3
    /\ source = "ai"

\* C3: once a response body has arrived no further provider call is made
\* and no further delay is slept; and a body that fails validation makes
\* ai_service_parse_pdf return no ParseResult, upon which
\* parse_cba_statement_with_id returns the text parser's result.
C3_InvalidBodyNotRetried ==
    /\ [][(\E i \in 1..Len(callLog) : ~Failed(i))
            => (callLog' = callLog /\ sleeps' = sleeps /\ requests' = requests)]_vars
    /\ [](  (pc = "done" /\ ~response.null /\ validate_cba_json_response(response) # 0)
            => /\ aiResult = NoResult
               /\ cfg.entry = "with_id" => (source = "text" /\ ~outcome.null))

C3_Witness ==
    /\ pc = "done"
    /\ cfg.entry = "with_id"
    /\ ~response.null
    /\ validate_cba_json_response(response) # 0
    /\ \E i \in 1..Len(response.items) : response.items[i].credit = JNum(-500000)
    /\ Len(callLog) = 2
    /\ source = "text"

\* C4: with provider openrouter or llamacpp, ai_service_parse_pdf fails at
\* once: no request is sent, no delay is slept and the provider is called
\* at most once.
C4_UnsupportedProviderImmediate ==
    cfg.provider \in {"openrouter", "llamacpp"} =>
        /\ requests = 0
        /\ sleeps = <<>>
        /\ Len(callLog) <= 1

\* The AI path produced a validated response.
AiPathSucceeded ==
    /\ callLog # <<>>
    /\ ~Failed(Len(callLog))
    /\ validate_cba_json_response(response) = 0

\* C5: with CBA configured for AI extraction, parse_cba_statement_with_id
\* returns the AI result exactly when the AI path produced a validated
\* response (zero transactions included), and in every other case returns
\* what the text parser makes of the document text; the result is that of
\* one of the two strategies, whole.
C5_AiOrTextFallback ==
    (pc = "done" /\ cfg.entry = "with_id" /\ content # Null
     /\ cfg.hasCbaConfig /\ cfg.method = "ai") =>
        /\ source \in {"ai", "text"}
        /\ source = "ai" <=> AiPathSucceeded
        /\ source = "ai" => outcome = parse_cba_json_to_result(response)
        /\ source = "text" => outcome = parse_cba_statement(content)
        /\ ~outcome.null

C5_Witness ==
    /\ pc = "done"
    /\ cfg.entry = "with_id" /\ cfg.method = "ai"
    /\ Len(callLog) = 4 /\ \A i \in 1..4 : Failed(i)
    /\ source = "text"
    /\ content = SampleStatement
    /\ Len(outcome.transactions) = 1

(***************************************************************************)
(* Properties of the CBA text parser (checked under SpecCba)               *)
(***************************************************************************)
\* The year the statement period gives a day/month-only date.
ExpectedYear(in) ==
    IF in.start_year # in.end_year /\ in.month <= 6 THEN in.end_year ELSE in.start_year

ExpectedDate(in) ==
    NatToStr(ExpectedYear(in)) \o <<"-">> \o ZeroPad(in.month, 2) \o <<"-">>
    \o ZeroPad(in.day, 2)

\* C10: a line "DD Mon <description> $<amount> $<balance> CR" yields exactly
\* one transaction, with credit = amount, debit = 0, the description between
\* date and amount, and the date resolved from the statement period.
C10_CreditColumnLine ==
    (tpc = "parsed" /\ tInput.kind = "credit_line") =>
        /\ Len(tResult.transactions) = 1
        /\ tResult.transactions[1].credit = Dbl(tInput.cents)
        /\ tResult.transactions[1].debit = Dbl(0)
        /\ tResult.transactions[1].description = tInput.desc
        /\ tResult.transactions[1].date = ExpectedDate(tInput)

\* C11: parse_cba_date resolves a day/month-only date to the statement
\* period's end year E when the period's years differ and the month is in
\* 1..6, and to its start year S otherwise: always S for a single-year
\* period; E for months 1-6 and S for months 7-12 of a two-year period.
C11_YearResolution ==
    (tpc = "parsed" /\ tInput.kind = "date") =>
        LET S == tInput.start_year
            E == tInput.end_year
            year == IF S # E /\ tInput.month \in 1..6 THEN E ELSE S
        IN  /\ tResult # Null
            /\ Len(tResult) = 10
            /\ SubSeq(tResult, 1, 4) = NatToStr(year)
            /\ SubSeq(tResult, 5, 10) = <<"-">> \o ZeroPad(tInput.month, 2)
                                          \o <<"-">> \o ZeroPad(tInput.day, 2)
            /\ S = E => SubSeq(tResult, 1, 4) = NatToStr(S)
            /\ (S # E /\ tInput.month >= 7) => SubSeq(tResult, 1, 4) = NatToStr(S)
            /\ (S # E /\ tInput.month <= 6) => SubSeq(tResult, 1, 4) = NatToStr(E)

C11_Witness ==
    /\ tpc = "parsed"
    /\ tInput.kind = "date"
    /\ tInput.start_year = 2024 /\ tInput.end_year = 2025
    /\ tInput.month = 6
    /\ tInput.text = <<"3", "1", " ", "j", "u", "n">>
    /\ tResult = <<"2", "0", "2", "5", "-", "0", "6", "-", "3", "1">>

\* The lines of the parsed text the parser that ran takes for transactions.
RecognisedLines ==
    {i \in 1..Len(tInput.lines) :
        IF tpc = "parsed_anz" THEN tInput.lines[i].anz ELSE tInput.lines[i].cba}

\* C15: for both text parsers, absent (NULL) content is the only input that
\* gives no ParseResult; any other content, the empty string and text
\* without a transaction line included, gives a ParseResult without an error
\* message, and one without transactions when no line is recognised.
C15_OnlyNullContentFails ==
    (tpc \in {"parsed", "parsed_anz"} /\ tInput.kind = "raw") =>
        /\ tResult.null <=> (tInput.text = Null)
        /\ ~tResult.null => tResult.error_message = Null
        /\ (~tResult.null /\ RecognisedLines = {}) => tResult.transactions = <<>>

C15_Witness ==
    /\ tpc = "parsed_anz" /\ tInput.kind = "raw"
    /\ tInput.text = <<>>
    /\ ~tResult.null /\ tResult.error_message = Null
    /\ tResult.transactions = <<>>

\* C21: a transaction line whose date fails the range checks is discarded
\* alone: the parse succeeds and the transactions emitted are those of the
\* same text without that line.
C21_BadDateLineDiscardedAlone ==
    /\ (tpc = "parsed" /\ tInput.kind = "bad_date_cba") =>
        /\ ~tResult.null
        /\ tResult.transactions = parse_cba_statement(tInput.without).transactions
    /\ (tpc = "parsed_anz" /\ tInput.kind = "bad_date_anz") =>
        /\ ~tResult.null
        /\ tResult.transactions = parse_anz_statement(tInput.without).transactions


\* C22: no text parser emits a transaction whose debit and credit are both
\* zero: every transaction of a ParseOutcome returned by parse_cba_statement
\* or parse_anz_statement has debit > 0 or credit > 0.
C22_NoZeroAmountTransaction ==
    (tpc \in {"parsed", "parsed_anz"} /\ tInput.kind # "date" /\ ~tResult.null) =>
        \A i \in 1..Len(tResult.transactions) :
            \/ DblPositive(tResult.transactions[i].debit)
            \/ DblPositive(tResult.transactions[i].credit)


\* The line's leading tokens are a day number and a month abbreviation.
DayThenMonth(line) ==
    Bind(sscanf_d_9s(line), LAMBDA sc :
        sc.n = 2 /\ sc.day >= 1 /\ sc.day <= 31 /\ MonthNumber(sc.str) # -1)

RECURSIVE DayMonthGroups(_, _, _)
\* The accumulated transactions of the lines from the i-th on when a line
\* starts a transaction exactly if DayThenMonth holds of it; cur is the
\* transaction being accumulated (Null before the first start line).
DayMonthGroups(lines, i, cur) ==
    IF i > Len(lines) THEN (IF cur = Null THEN <<>> ELSE <<cur>>)
    ELSE Bind(SubSeq(lines[i], SkipSpace(lines[i], 1), Len(lines[i])), LAMBDA line :
             IF line = <<>> THEN DayMonthGroups(lines, i + 1, cur)
             ELSE IF DayThenMonth(line)
                  THEN (IF cur = Null THEN <<>> ELSE <<cur>>)
                       \o DayMonthGroups(lines, i + 1, line)
             ELSE IF cur = Null THEN DayMonthGroups(lines, i + 1, cur)
             ELSE DayMonthGroups(lines, i + 1, cur \o <<" ">> \o line))

RECURSIVE ProcessEach(_, _, _)
\* process_cba_transaction_line applied once to each of groups[i..], in order.
ProcessEach(groups, i, pr) ==
    IF i > Len(groups) THEN pr
    ELSE ProcessEach(groups, i + 1, process_cba_transaction_line(groups[i], pr))

\* C23: CBA line grouping: a line starts a transaction if and only if its
\* leading tokens are a day number and a month abbreviation, other non-empty
\* lines are appended to the transaction in progress, each accumulated
\* transaction is processed exactly once, and lines before the first start
\* line belong to no transaction.
C23_GroupingByDayAndMonth ==
    (tpc = "parsed" /\ tInput.kind # "date" /\ tInput.text # Null) =>
        tResult.transactions =
            ProcessEach(DayMonthGroups(strtok_lines(tInput.text, 1), 1, Null), 1,
                        [create_parse_result EXCEPT
                            !.statement_period = extract_statement_period(tInput.text)]
                       ).transactions


\* C24: the balance is the trailing field of the accumulated line, so a word
\* of the description that begins with "CR" does not change which field is
\* the balance: a debit-column line emits its description and its amount
\* as debit.
C24_BalanceIsTrailingField ==
    (tpc = "parsed" /\ tInput.kind = "debit_line") =>
        /\ Len(tResult.transactions) = 1
        /\ tResult.transactions[1].description = tInput.desc
        /\ tResult.transactions[1].debit = Dbl(tInput.cents)
        /\ tResult.transactions[1].credit = Dbl(0)


\* C25: an ANZ transaction line emits the currency-prefixed field before the
\* trailing balance as its amount, as credit (debit 0) exactly if CR directly
\* follows the numeral and as debit (credit 0) otherwise; no ANZ transaction
\* has both debit and credit non-zero.
C25_AnzAmountColumn ==
    /\ (tpc = "parsed_anz" /\ tInput.kind \in {"anz_credit", "anz_debit"}) =>
        /\ Len(tResult.transactions) = 1
        /\ tResult.transactions[1].description = tInput.desc
        /\ tResult.transactions[1].credit =
               Dbl(IF tInput.kind = "anz_credit" THEN tInput.cents ELSE 0)
        /\ tResult.transactions[1].debit =
               Dbl(IF tInput.kind = "anz_debit" THEN tInput.cents ELSE 0)
    /\ (tpc = "parsed_anz" /\ ~tResult.null) =>
        \A i \in 1..Len(tResult.transactions) :
            \/ tResult.transactions[i].debit = Dbl(0)
            \/ tResult.transactions[i].credit = Dbl(0)

\* An ANZ line whose amount carries the suffix CR was parsed into a credit.
C25_Witness ==
    /\ tpc = "parsed_anz" /\ tInput.kind = "anz_credit"
    /\ tInput.desc = S_DescCreditInterest /\ tInput.cents = 1250
    /\ Len(tResult.transactions) = 1
    /\ tResult.transactions[1].credit = Dbl(1250)
    /\ tResult.transactions[1].debit = Dbl(0)


(***************************************************************************)
(* Properties of the categoriser (checked under SpecCat)                   *)
(***************************************************************************)
\* The subject contains the text.
Contains(subject, text) ==
    \E k \in 0..(Len(subject) - Len(text)) :
        \A j \in 1..Len(text) : subject[k + j] = text[j]

\* The rules of the Config that match the description: compiled, not
\* failing in the engine, and with their text in the description.
MatchingRules(config, description) ==
    {j \in 1..Len(config.rules) :
        /\ config.rules[j].compiled
        /\ ~config.rules[j].faulty
        /\ Contains(description, config.rules[j].pattern)}

\* C12: categorise_transaction leaves a transaction that has a category
\* unchanged in every field, whatever the rules and the default; and
\* categorising a transaction twice gives what categorising it once gives.
C12_NeverOverwrites ==
    /\ [][\A i \in 1..Len(kTx) : kTx[i].category # Null => kTx'[i] = kTx[i]]_vars
    /\ [](\A i \in 1..Len(kTx) :
            categorise_transaction(categorise_transaction(kTx[i], kConfig).t, kConfig).t
                = categorise_transaction(kTx[i], kConfig).t)

C12_Witness ==
    /\ kpc = 2
    /\ Len(kLog) = 1 /\ kLog[1].i = 1
    /\ kLog[1].before.category = Cat_Preset
    /\ kLog[1].before.description = S_DescSalary
    /\ Len(kConfig.rules) > 0 /\ kConfig.rules[1].category = Cat_Income
    /\ kTx[1].category = Cat_Preset

\* C13: an uncategorised transaction with a description gets the category
\* of the lowest-index rule that matches it; rules without a compiled
\* pattern are passed over, rules the engine fails on count as not
\* matching, and no rule after the first match is matched against.
C13_FirstMatchWins ==
    \A n \in 1..Len(kLog) :
        LET e == kLog[n]
            hits == MatchingRules(kConfig, e.before.description)
        IN  (e.before.category = Null /\ e.before.description # Null /\ hits # {}) =>
                \E first \in hits :
                    /\ \A j \in hits : first <= j
                    /\ kTx[e.i].category = kConfig.rules[first].category
                    /\ \A k \in 1..Len(e.evals) : e.evals[k] <= first
                    /\ {e.evals[k] : k \in 1..Len(e.evals)}
                           = {j \in 1..first : kConfig.rules[j].compiled}

C13_Witness ==
    /\ kpc = 1
    /\ Len(kConfig.rules) = 2
    /\ kConfig.rules[1].category = Cat_Misc
    /\ kConfig.rules[2].category = Cat_Income
    /\ \E n \in 1..Len(kLog) :
          /\ kLog[n].before.category = Null
          /\ kLog[n].before.description = S_DescSalary
          /\ kLog[n].evals = <<1>>
          /\ kTx[kLog[n].i].category = Cat_Misc

\* C14: an uncategorised transaction without a description gets the
\* default category with no rule matched against; one whose description no
\* rule matches gets the default category; and after
\* categorise_all_transactions every transaction of the batch has a category.
C14_DefaultAndTotal ==
    /\ \A n \in 1..Len(kLog) :
          LET e == kLog[n]
          IN  /\ (e.before.category = Null /\ e.before.description = Null) =>
                    /\ kTx[e.i].category = kConfig.default_category
                    /\ e.evals = <<>>
              /\ (e.before.category = Null /\ e.before.description # Null
                  /\ MatchingRules(kConfig, e.before.description) = {}) =>
                    kTx[e.i].category = kConfig.default_category
    /\ (kpc > 0 /\ Len(kLog) = Len(kTx)) =>
          \A i \in 1..Len(kTx) : kTx[i].category # Null

C14_Witness ==
    /\ kpc = 1
    /\ Len(kTx) = 1 /\ Len(kLog) = 1
    /\ Len(kConfig.rules) > 0 /\ kConfig.rules[1].category = Cat_Misc
    /\ kConfig.default_category = Cat_Other
    /\ kLog[1].before.description = Null /\ kLog[1].before.category = Null
    /\ kLog[1].evals = <<>>
    /\ kTx[1].category = Cat_Other

(***************************************************************************)
(* SpecApi: make_api_request (paperless_api.c)                             *)
(***************************************************************************)
\* The max_retries its callers pass (paperless_api.c:238, 298).
ApiRetryLimits == {2, 3}

\* The pieces in which the bytes of a response body can reach the write
\* callback: none, an error page, a JSON body in one piece or in two.
ApiBodies ==
    {<<>>,
     <<<<"e", "r", "r">>>>,
     <<<<"{", "}">>>>,
     <<<<"{">>, <<"}">>>>}

\* WriteMemoryCallback (paperless_api.c:17-33): the struct after the call and
\* the value returned; `fails' says whether realloc fails.
WriteMemoryCallback(contents, userp, fails) ==
    IF fails THEN [response |-> userp, ret |-> 0]
    ELSE [response |-> [userp EXCEPT !.memory = SubSeq(@, 1, userp.size) \o contents,
                                     !.size = @ + Len(contents)],
          ret |-> Len(contents)]

RECURSIVE Receive(_, _, _, _)
\* curl_easy_perform handing pieces[i..] to the callback; the realloc of
\* piece failAt fails (0: none does).  A callback return other than the
\* piece's size ends the transfer with an error.
Receive(pieces, i, userp, failAt) ==
    IF i > Len(pieces) THEN [response |-> userp, written |-> TRUE]
    ELSE Bind(WriteMemoryCallback(pieces[i], userp, i = failAt), LAMBDA w :
             IF w.ret # Len(pieces[i]) THEN [response |-> w.response, written |-> FALSE]
             ELSE Receive(pieces, i + 1, w.response, failAt))

\* What an attempt can meet: the transfer completes or breaks off (a curl
\* error), the status of the answer, the pieces received, a failing realloc.
ApiTransfers ==
    UNION {{[complete |-> c, code |-> code, pieces |-> ps, failAt |-> f] :
               f \in 0..Len(ps)} :
           c \in BOOLEAN, code \in {200, 404, 500}, ps \in ApiBodies}

InitApi ==
    /\ IdleAi /\ IdleJson /\ IdleCba /\ IdleCat /\ IdleRun
    /\ apc = "start"
    /\ api_max_retries \in ApiRetryLimits
    /\ retry = 0
    /\ api_response = [memory |-> <<>>, size |-> 0, freed |-> FALSE]
    /\ api_body = <<>>
    /\ api_sleeps = <<>>

\* `free(response->memory); free(response); return NULL;'
ApiFail ==
    /\ apc' = "returned_null"
    /\ api_response' = [memory |-> <<>>, size |-> 0, freed |-> TRUE]

\* The allocation of the response (paperless_api.c:62-66).
ApiAllocate ==
    /\ apc = "start"
    /\ \E ok \in BOOLEAN :
          IF ok THEN apc' = "loop" ELSE apc' = "returned_null"
    /\ UNCHANGED <<api_max_retries, retry, api_response, api_body, api_sleeps,
                   aiVars, jsonVars, cbaVars, catVars, runVars>>

\* The rest of an iteration after the sleep (paperless_api.c:74-105) for a
\* transfer t; `handle' says whether init_curl_handle returns a handle.
ApiPerform(t, handle) ==
    IF ~handle THEN ApiFail /\ UNCHANGED <<retry, api_body>>
    ELSE \E r \in {Receive(t.pieces, 1, api_response, t.failAt)} :
            /\ api_body' = SubSeq(r.response.memory, api_response.size + 1,
                                  r.response.size)
            /\ IF t.complete /\ r.written /\ t.code = 200
               THEN /\ apc' = "returned" /\ api_response' = r.response
                    /\ UNCHANGED retry
               ELSE IF (t.complete /\ r.written /\ t.code >= 400 /\ t.code < 500)
                       \/ retry + 1 > api_max_retries
               THEN ApiFail /\ retry' = retry + 1
               ELSE /\ apc' = "loop" /\ api_response' = r.response
                    /\ retry' = retry + 1

\* One iteration of the retry loop (paperless_api.c:68-105), the frees after
\* the loop included when the iteration is the last.
ApiAttempt ==
    /\ apc = "loop"
    /\ retry <= api_max_retries
    /\ api_sleeps' = IF retry > 0 THEN Append(api_sleeps, Pow2(retry - 1)) ELSE api_sleeps
    /\ \E t \in ApiTransfers, handle \in BOOLEAN : ApiPerform(t, handle)
    /\ UNCHANGED <<api_max_retries, aiVars, jsonVars, cbaVars, catVars, runVars>>

NextApi == ApiAllocate \/ ApiAttempt

SpecApi == InitApi /\ [][NextApi]_vars


(***************************************************************************)
(* Properties of a run (checked under SpecRun)                             *)
(***************************************************************************)
\* The positions of runLog that hold event e of document id.
EventsAt(e, id) == {p \in 1..Len(runLog) : runLog[p].e = e /\ runLog[p].id = id}

\* The extraction steps the run took for document id, in order.
StepsOf(id) ==
    SelectSeq(runLog, LAMBDA ev : ev.id = id /\ ev.e \in {"download", "ai", "text"})

\* C16: a visited document whose institution identifier the registry
\* resolves to the CBA parser has, with CBA configured for AI extraction, the
\* AI path attempted first (its extraction opens with the download); any
\* other document with a parser has the text parser invoked directly, with no
\* download and no AI call.
C16_AiFirstForCbaOnly ==
    \A i \in 1..Len(documents) :
        LET doc == documents[i]
            parser == get_parser_for_correspondent(doc.correspondent)
        IN  (EventsAt("visit", doc.id) # {} /\ parser # "NULL") =>
                IF parser = "parse_cba_statement" /\ should_use_ai_parsing(runCfg)
                THEN StepsOf(doc.id)[1].e = "download"
                ELSE StepsOf(doc.id) = <<Event("text", doc.id, 0)>>

\* The document a step of the loop visits.
VisitedDoc == documents[doc_i + 1]

\* The visited document has an institution identifier with a parser, and
\* its extraction returned a ParseResult with at least one transaction.
Qualifies ==
    /\ VisitedDoc.correspondent # Null
    /\ get_parser_for_correspondent(VisitedDoc.correspondent) # "NULL"
    /\ ~parse_result'.null
    /\ Len(parse_result'.transactions) >= 1

\* The step counts the visited document as processed and appends its
\* transactions to the aggregate.
CountedProcessed ==
    /\ processed_documents' = processed_documents + 1
    /\ skipped_documents' = skipped_documents
    /\ ~all_transactions'.null
    /\ all_transactions'.items = all_transactions.items \o parse_result'.transactions
    /\ Len(all_metadata'.items) = Len(all_transactions'.items)
    /\ total_transaction_count' = total_transaction_count + Len(parse_result'.transactions)

\* The step counts the visited document as skipped, leaves the aggregate
\* alone and goes on to the next document or to the end of the loop.
CountedSkipped ==
    /\ skipped_documents' = skipped_documents + 1
    /\ processed_documents' = processed_documents
    /\ all_transactions' = all_transactions /\ all_metadata' = all_metadata
    /\ total_transaction_count' = total_transaction_count
    /\ doc_i' = doc_i + 1
    /\ runpc' = IF doc_i' < Len(documents) THEN "loop" ELSE "summary"

\* Growing both arrays of the aggregate succeeded in the step.
AggregateGrew == ~all_transactions'.null /\ ~all_metadata'.null

\* C17 as stated: a document is counted as processed and contributes to the
\* aggregate if and only if it has an institution identifier with a parser
\* and extraction returned at least one transaction; in every other case it
\* is counted as skipped, contributes nothing, and the run continues.
C17_ProcessedIffQualifies ==
    [][runpc = "loop" =>
          /\ Qualifies <=> CountedProcessed
          /\ ~Qualifies => CountedSkipped]_vars

\* C17: a document is counted as processed and contributes to the aggregate
\* if and only if it has an institution identifier with a parser, extraction
\* returned at least one transaction, and growing the aggregate for it
\* succeeded; when growing the aggregate fails the document is counted
\* neither as processed nor as skipped and the loop ends; in every other case
\* it is counted as skipped, contributes nothing, and the run continues.
C17_ProcessedIffQualifiesAndGrown ==
    [][runpc = "loop" =>
          /\ (Qualifies /\ AggregateGrew) <=> CountedProcessed
          /\ (Qualifies /\ ~AggregateGrew) =>
                /\ processed_documents' = processed_documents
                /\ skipped_documents' = skipped_documents
                /\ total_transaction_count' = total_transaction_count
                /\ runpc' = "summary"
          /\ ~Qualifies => CountedSkipped]_vars

C17_Witness ==
    /\ runpc = "summary"
    /\ Len(documents) = 2
    /\ EventsAt("aggregated", documents[1].id) # {}
    /\ EventsAt("skipped", documents[2].id) # {}
    /\ processed_documents = 1 /\ skipped_documents = 1
    /\ total_transaction_count = 1 /\ Len(all_transactions.items) = 1

\* The events of runLog from the first visit on, up to the end of the loop.
LoopEvents == SelectSeq(runLog, LAMBDA ev : ev.e \notin {"query", "summary", "report",
                                                        "no_report", "tagged", "tag_failed"})

\* The position of document id in `documents', 0 when it is not there.
DocPos(id) ==
    IF \E i \in 1..Len(documents) : documents[i].id = id
    THEN CHOOSE i \in 1..Len(documents) : documents[i].id = id
    ELSE 0

RECURSIVE SumCounts(_, _)
\* The sum of the counts of the "aggregated" events among log[1..n].
SumCounts(log, n) ==
    IF n = 0 THEN 0
    ELSE SumCounts(log, n - 1) + (IF log[n].e = "aggregated" THEN log[n].n ELSE 0)

\* No allocation failed while the aggregate grew.
NoAllocationFailure == \A p \in 1..Len(runLog) : runLog[p].e # "alloc_failed"

\* C18: documents are visited one at a time in the order supplied, each
\* visit's extraction, categorisation and aggregation lying before the next
\* visit; absent allocation failure, once the loop has ended every document
\* has been visited exactly once, processed + skipped is the number of
\* documents, and the total transaction count is the sum of the counts of the
\* processed documents.
C18_SequentialAndCounted ==
    /\ Bind(LoopEvents, LAMBDA evs :
          /\ \A p \in 1..Len(evs) : DocPos(evs[p].id) # 0
          /\ \A p \in 1..(Len(evs) - 1) : DocPos(evs[p].id) <= DocPos(evs[p + 1].id))
    /\ \A i \in 1..Len(documents) :
          /\ Cardinality(EventsAt("visit", documents[i].id)) = (IF i <= doc_i THEN 1 ELSE
                IF i = doc_i + 1 /\ ~NoAllocationFailure THEN 1 ELSE 0)
    /\ (runpc \in {"summary", "tagging", "cleanup"} /\ NoAllocationFailure) =>
          /\ doc_i = Len(documents)
          /\ processed_documents + skipped_documents = Len(documents)
          /\ total_transaction_count = SumCounts(runLog, Len(runLog))
          /\ total_transaction_count = Len(all_transactions.items)
          /\ processed_documents =
                Cardinality({i \in 1..Len(documents) :
                                EventsAt("aggregated", documents[i].id) # {}})

C18_Witness ==
    /\ runpc = "summary" /\ NoAllocationFailure
    /\ Len(documents) = 2
    /\ EventsAt("skipped", documents[1].id) # {}
    /\ EventsAt("aggregated", documents[2].id) # {}
    /\ processed_documents = 1 /\ skipped_documents = 1

\* C19: once growing the aggregate has failed, no further document is
\* visited, no report is written and no document is tagged.
C19_AllocationFailureAborts ==
    \A p \in 1..Len(runLog), q \in 1..Len(runLog) :
        (runLog[p].e = "alloc_failed" /\ p < q) =>
            runLog[q].e \notin {"visit", "report", "tagged", "tag_failed"}

\* C20: the documents fetched are those carrying the Accounts tag and, unless
\* --reprocess is given, not the processed tag.
C20_QueryHonoursReprocess ==
    (runpc = "loop" /\ doc_i = 0) =>
        {documents[i].id : i \in 1..Len(documents)} =
            {store[k].id : k \in {j \in 1..Len(store) :
                /\ TagAccounts \in store[j].tags
                /\ reprocess \/ TagProcessed \notin store[j].tags}}

\* The transactions with their categories cleared.
StripCategory(txs) == [j \in 1..Len(txs) |-> [txs[j] EXCEPT !.category = Null]]

\* What the step put at the end of the aggregate.
AppendedTransactions ==
    SubSeq(all_transactions'.items, Len(all_transactions.items) + 1,
           Len(all_transactions'.items))

AppendedMetadata ==
    SubSeq(all_metadata'.items, Len(all_metadata.items) + 1, Len(all_metadata'.items))

\* The transactions of an ANZ text that holds the one line.
AnzLineTransactions(line) == parse_anz_statement(line \o <<"\n">>).transactions

\* C26: ordering is preserved end to end: the aggregate only grows at its
\* end, what a processed document adds are the transactions its extraction
\* returned, in the order returned (for a text statement the order of its
\* lines), all under that document's id, so the aggregate is in document
\* order and then in-document order.
C26_OrderPreserved ==
    [][/\ (~all_transactions.null /\ ~all_transactions'.null) =>
             /\ Len(all_transactions'.items) >= Len(all_transactions.items)
             /\ SubSeq(all_transactions'.items, 1, Len(all_transactions.items))
                    = all_transactions.items
       /\ (~all_metadata.null /\ ~all_metadata'.null) =>
             /\ Len(all_metadata'.items) >= Len(all_metadata.items)
             /\ SubSeq(all_metadata'.items, 1, Len(all_metadata.items))
                    = all_metadata.items
       /\ (runpc = "loop" /\ Qualifies /\ AggregateGrew) =>
             /\ \E run \in ExtractionRuns(VisitedDoc,
                               get_parser_for_correspondent(VisitedDoc.correspondent),
                               runCfg) :
                   /\ ~run.result.null
                   /\ StripCategory(AppendedTransactions)
                          = StripCategory(run.result.transactions)
             /\ Len(AppendedMetadata) = Len(AppendedTransactions)
             /\ \A j \in 1..Len(AppendedMetadata) :
                   AppendedMetadata[j].document_id = VisitedDoc.id
             /\ \A j, k \in 1..Len(all_metadata'.items) :
                   j < k => DocPos(all_metadata'.items[j].document_id)
                               <= DocPos(all_metadata'.items[k].document_id)
             /\ VisitedDoc.content = T_Anz =>
                   StripCategory(AppendedTransactions)
                       = AnzLineTransactions(L_AnzDebit) \o AnzLineTransactions(L_AnzCredit)]_vars

\* A CBA document and then an ANZ document with two transactions were
\* aggregated: three transactions, the ANZ debit before the ANZ credit.
C26_Witness ==
    /\ runpc = "summary" /\ Len(documents) = 2
    /\ ~all_transactions.null /\ ~all_metadata.null
    /\ Len(all_transactions.items) = 3
    /\ [j \in 1..3 |-> all_metadata.items[j].document_id]
           = <<documents[1].id, documents[2].id, documents[2].id>>
    /\ documents[2].content = T_Anz
    /\ all_transactions.items[2].debit = Dbl(1999)
    /\ all_transactions.items[3].credit = Dbl(10000)

\* C27: a document is tagged as processed only if it was counted as processed
\* and the report was written; a document that was skipped is never tagged.
C27_TaggedOnlyIfProcessed ==
    \A p \in 1..Len(runLog) :
        runLog[p].e = "tagged" =>
            /\ EventsAt("aggregated", runLog[p].id) # {}
            /\ EventsAt("skipped", runLog[p].id) = {}
            /\ \E q \in 1..(p - 1) : runLog[q].e = "report"

\* C28: the temporary file the download created is deleted before
\* parse_cba_statement_with_id returns: by the download routine when the
\* transfer fails, and after the AI attempt otherwise, whatever its end; it
\* exists only between the download and the end of the AI attempt.
C28_TempFileDeleted ==
    /\ pc = "done" => temp_file # "present"
    /\ temp_file = "present" =>
          cfg.entry = "with_id" /\ pc \in {"config", "encode", "call", "parse"}
    /\ (pc = "done" /\ cfg.entry = "with_id" /\ aiResult # NoResult) =>
          temp_file = "deleted"
    /\ (pc = "done" /\ callLog # <<>> /\ cfg.entry = "with_id") => temp_file = "deleted"

\* The download succeeded, every provider call failed, the text parser's
\* result was returned, and the file is gone.
C28_Witness ==
    /\ pc = "done" /\ cfg.entry = "with_id"
    /\ Len(callLog) = max_retries + 1
    /\ aiResult.null /\ source = "text"
    /\ temp_file = "deleted"

\* C29: when make_api_request returns a response after failed attempts, its
\* body is exactly the body the successful attempt received.
C29_BodyOfSuccessfulAttempt ==
    apc = "returned" =>
        /\ api_response.size = Len(api_body)
        /\ SubSeq(api_response.memory, 1, api_response.size) = api_body

\* The date "<year>-<month>-<day>" of the input's day and month.
DateIn(year) ==
    ZeroPad(year, 4) \o <<"-">> \o ZeroPad(tInput.month, 2) \o <<"-">>
    \o ZeroPad(tInput.day, 2)

\* C30: when a CBA statement carries no statement period, or one whose years
\* cannot be read, the day/month date resolves to the year 2025 and the
\* transaction is emitted; when only the start year is readable the end year
\* stays 2025, so the months 1 to 6 resolve to 2025.
C30_DefaultYear ==
    /\ (tpc = "parsed" /\ tInput.kind = "no_years") =>
          /\ Len(tResult.transactions) = 1
          /\ tResult.transactions[1].date = DateIn(2025)
          /\ tResult.transactions[1].debit = Dbl(tInput.cents)
    /\ (tpc = "parsed" /\ tInput.kind = "start_year_only" /\ tInput.month <= 6) =>
          /\ Len(tResult.transactions) = 1
          /\ tResult.transactions[1].date = DateIn(2025)
          /\ tResult.transactions[1].debit = Dbl(tInput.cents)

\* A June line of a statement whose period reads "1 May 2024" was emitted
\* under the year 2025.
C30_Witness ==
    /\ tpc = "parsed" /\ tInput.kind = "start_year_only"
    /\ tInput.period = S_PeriodStart2024 /\ tInput.month = 6 /\ tInput.day = 3
    /\ Len(tResult.transactions) = 1
    /\ tResult.transactions[1].date = <<"2", "0", "2", "5", "-", "0", "6", "-", "0", "3">>
    /\ tResult.statement_period = S_PeriodStart2024

====
